---- MODULE Spec2Model ----
(***************************************************************************)
(* Verification model of mkutils: the chunk-aligned byte-stream encoders   *)
(* (ChunkedByteBuffer, B64Stream, Base64Stream) and the audio container    *)
(* encoders.  Bytes are integers 0..255, base64 characters are the indices *)
(* 0..63 of the standard alphabet, and 64 stands for the '=' padding.      *)
(***************************************************************************)
EXTENDS Integers, Sequences, FiniteSets, TLC

VARIABLES
    cbb_byte_buffer,    \* ChunkedByteBuffer.byte_buffer.byte_array
    cbb_chunk_size,     \* ChunkedByteBuffer.chunk_size
    cbb_cursor,         \* ChunkedByteBuffer.cursor
    b64_string,         \* B64Stream.b64_string (buffer.StringBuffer)
    bs_byte_str,        \* Base64Stream.byte_str
    bs_string_buffer,   \* Base64Stream.string_buffer (string_buffer.StringBuffer)
    bs_cursor,          \* Base64Stream.cursor
    wav_yielded_header, \* WavAudioEncoder.yielded_header
    wav_header_duration,\* WavAudioEncoder.header_duration, in seconds
    mp3_lame_encoder,   \* Mp3AudioEncoder.lame_encoder (the lameenc codec object)
    mp3_lame_encoder_is_configured, \* Mp3AudioEncoder.lame_encoder_is_configured
    mp3_is_empty,       \* Mp3AudioEncoder.is_empty
    pcm_audio_format,   \* PcmAudioEncoder.pcm_audio_format
    enc_kind,           \* the audio encoder class under test
    buf_kind,           \* the buffer class under test
    buf,                \* its state: byte_array of a ByteBuffer, or the
                        \* fields [strings, length] of a StringBuffer
    snk,                \* a running Sink.aconsume: its position, the iterator
                        \* it reads and the calls made on the sink so far
    mrg,                \* a running Utils.amerge: the sources, the task
                        \* dictionary and the position of the generator
    el,                 \* an ElevenLabs object, its websocket and a running
                        \* aiter_audio
    mic,                \* a Microphone: its audio_queue and the callbacks
                        \* pending in its event_loop
    call,               \* the call just made: [op, data, finish]
    ret,                \* its outcome: [kind |-> "return" | "raise", ...]
    input,              \* history: every byte handed to extend, in call order
    output,             \* history: everything returned so far, in call order
    nfinish,            \* history: number of calls made with finish=true
    ncalls              \* history: number of mutating calls made

vars == <<cbb_byte_buffer, cbb_chunk_size, cbb_cursor, b64_string,
          bs_byte_str, bs_string_buffer, bs_cursor,
          wav_yielded_header, wav_header_duration,
          mp3_lame_encoder, mp3_lame_encoder_is_configured, mp3_is_empty,
          pcm_audio_format, enc_kind, buf_kind, buf, snk, mrg, el, mic,
          call, ret, input, output, nfinish, ncalls>>

cbbVars == <<cbb_byte_buffer, cbb_chunk_size, cbb_cursor, b64_string>>
bsVars == <<bs_byte_str, bs_string_buffer, bs_cursor>>
wavVars == <<wav_yielded_header, wav_header_duration>>
mp3Vars == <<mp3_lame_encoder, mp3_lame_encoder_is_configured, mp3_is_empty>>
pcmVars == <<pcm_audio_format>>
encVars == <<enc_kind>>
bufVars == <<buf_kind, buf>>
asyncVars == <<snk, mrg, el, mic>>
\* the encoders and buffers
dataVars == <<cbbVars, bsVars, wavVars, mp3Vars, pcmVars, encVars, bufVars>>

----------------------------------------------------------------------------
(* Bounds *)

MaxData == 2        \* longest byte string handed to one extend call
MaxCalls == 3       \* mutating calls made on one encoder
MaxChunkSize == 3   \* largest chunk_size a ChunkedByteBuffer is built with
MaxPush == 2        \* push calls made on one audio encoder
MaxFrames == 1      \* frames in one audio batch
MaxMp3Push == 3     \* push calls made on one Mp3AudioEncoder
MaxBufPush == 2     \* push calls made on one buffer
MaxIndex == 3       \* largest index handed to ByteBuffer.slice
MaxValue == 8       \* largest value handed to largest_multiple_leq
MaxMaxValue == 16   \* largest max_value handed to largest_multiple_leq
MaxItems == 2       \* values the iterator handed to Sink.aconsume produces
MaxIterLen == 4     \* values in an iterable handed to iter_items / aiter_items
MaxBegin == 2       \* largest begin handed to iter_intervals
MaxTotal == 7       \* largest total handed to iter_intervals
MaxTextLen == 2     \* characters in a text handed to SentenceSplitter.push
MaxTexts == 2       \* SentenceSplitter.push calls
MaxLines == 3       \* response lines HumeAi.aiter_audio receives
MaxBlocks == 3      \* audio blocks the microphone captures
MaxSources == 2     \* async iterators handed to Utils.amerge
MaxSourceItems == 2 \* values one source of amerge produces
MaxMessages == 2    \* audio messages the websocket still delivers

ByteValues == {97, 200}

RECURSIVE SeqsUpTo(_, _)
SeqsUpTo(S, n) ==
    IF n = 0 THEN {<<>>}
    ELSE LET shorter == SeqsUpTo(S, n - 1)
         IN  shorter \cup {Append(s, x) : s \in {t \in shorter : Len(t) = n - 1}, x \in S}

DataValues == SeqsUpTo(ByteValues, MaxData)

----------------------------------------------------------------------------
(* Pure helpers *)

\* Python's value[begin:end] for 0 <= begin, end: both bounds saturate at the
\* length and an empty range yields the empty sequence.
PySlice(s, begin, end) ==
    LET e == IF end > Len(s) THEN Len(s) ELSE end
        b == IF begin > Len(s) THEN Len(s) ELSE begin
    IN  IF b >= e THEN <<>> ELSE SubSeq(s, b + 1, e)

largest_multiple_leq_nofloor(value, max_value) == max_value

\* Variant that rounds up instead of down.
largest_multiple_leq_ceil(value, max_value) == ((max_value + value - 1) \div value) * value

\* Python's // and \div both round towards minus infinity.

largest_multiple_leq(value, max_value) == (max_value \div value) * value

\* One base64 group: up to three bytes become four characters.
B64Group(g) ==
    LET b1 == g[1]
        b2 == IF Len(g) >= 2 THEN g[2] ELSE 0
        b3 == IF Len(g) >= 3 THEN g[3] ELSE 0
        c1 == b1 \div 4
        c2 == (b1 % 4) * 16 + (b2 \div 16)
        c3 == (b2 % 16) * 4 + (b3 \div 64)
        c4 == b3 % 64
    IN  IF Len(g) = 1 THEN <<c1, c2, 64, 64>>
        ELSE IF Len(g) = 2 THEN <<c1, c2, c3, 64>>
        ELSE <<c1, c2, c3, c4>>

RECURSIVE b64encode(_)
b64encode(byte_str) ==
    IF Len(byte_str) = 0 THEN <<>>
    ELSE IF Len(byte_str) <= 3 THEN B64Group(byte_str)
    ELSE B64Group(SubSeq(byte_str, 1, 3)) \o b64encode(SubSeq(byte_str, 4, Len(byte_str)))

RECURSIVE Join(_)
Join(strings) ==
    IF Len(strings) = 0 THEN <<>> ELSE Head(strings) \o Join(Tail(strings))

PadChar == 64

HasPadding(string) == \E i \in 1..Len(string) : string[i] = PadChar

----------------------------------------------------------------------------
(* string_buffer.StringBuffer *)

StringBuffer_new == [strings |-> <<>>, length |-> 0]

StringBuffer_push(sb, string) ==
    [strings |-> Append(sb.strings, string), length |-> sb.length + Len(string)]

StringBuffer_string(sb) == Join(sb.strings)

----------------------------------------------------------------------------
(* Calls and their outcomes *)

NoCall == [op |-> "new", data |-> <<>>, finish |-> FALSE]
Return(value) == [kind |-> "return", value |-> value, exc |-> "none"]
Raise(exc) == [kind |-> "raise", value |-> <<>>, exc |-> exc]
NoRet == Return(<<>>)

finished == nfinish > 0

\* Base64Stream.CHUNK_SIZE and B64Stream.CHUNK_SIZE
CHUNK_SIZE == 3

----------------------------------------------------------------------------
(* buffer.ByteBuffer and buffer.StringBuffer *)

ByteBuffer_new == <<>>

ByteBuffer_len(byte_array) == Len(byte_array)

ByteBuffer_push(byte_array, value) == byte_array \o value

ByteBuffer_slice(byte_array, begin, end) == PySlice(byte_array, begin, end)

BufferStringBuffer_new == [strings |-> <<>>, length |-> 0]

BufferStringBuffer_push(sb, value) ==
    [strings |-> Append(sb.strings, value), length |-> sb.length + Len(value)]

BufferStringBuffer_value(sb) == Join(sb.strings)

----------------------------------------------------------------------------
(* b64_stream.ChunkedByteBuffer and b64_stream.B64Stream *)

\* ChunkedByteBuffer is declared @dataclass(frozen=True): assigning to one of
\* its fields raises dataclasses.FrozenInstanceError.
ChunkedByteBuffer_frozen == TRUE

\* ChunkedByteBuffer.new(chunk_size): the dataclass constructor stores the
\* argument as it is.
ChunkedByteBuffer_new(chunk_size) ==
    [byte_buffer |-> ByteBuffer_new, chunk_size |-> chunk_size, cursor |-> 0,
     ret |-> Return(<<>>)]

\* The outcome of extend on the buffer self = [byte_buffer, chunk_size,
\* cursor]: the fields after the call and what the call returned or raised.
\* byte_buffer.push has already run when the assignment to cursor raises,
\* and when the division by a chunk_size of 0 raises.
ChunkedByteBuffer_extend(self, byte_str, finish) ==
    LET pushed == ByteBuffer_push(self.byte_buffer, byte_str)
        end == IF finish THEN ByteBuffer_len(pushed)
               ELSE largest_multiple_leq(self.chunk_size, ByteBuffer_len(pushed))
        slice == ByteBuffer_slice(pushed, self.cursor, end)
    IN  IF ~finish /\ self.chunk_size = 0
        THEN [byte_buffer |-> pushed, cursor |-> self.cursor,
              ret |-> Raise("ZeroDivisionError")]
        ELSE IF ChunkedByteBuffer_frozen
        THEN [byte_buffer |-> pushed, cursor |-> self.cursor,
              ret |-> Raise("FrozenInstanceError")]
        ELSE [byte_buffer |-> pushed, cursor |-> end, ret |-> Return(slice)]

ChunkedByteBuffer_finish(self) == ChunkedByteBuffer_extend(self, <<>>, TRUE)

cbb_self ==
    [byte_buffer |-> cbb_byte_buffer, chunk_size |-> cbb_chunk_size, cursor |-> cbb_cursor]

CBB_Call(op, byte_str, finish) ==
    LET r == ChunkedByteBuffer_extend(cbb_self, byte_str, finish)
    IN  /\ cbb_byte_buffer' = r.byte_buffer
        /\ cbb_cursor' = r.cursor
        /\ ret' = r.ret
        /\ output' = output \o r.ret.value
        /\ input' = input \o byte_str
        /\ nfinish' = nfinish + (IF finish THEN 1 ELSE 0)
        /\ ncalls' = ncalls + 1
        /\ call' = [op |-> op, data |-> byte_str, finish |-> finish]
        /\ UNCHANGED <<cbb_chunk_size, b64_string, bsVars, wavVars, mp3Vars, pcmVars, encVars, asyncVars, bufVars>>

CBB_Extend ==
    /\ ncalls < MaxCalls
    /\ \E byte_str \in DataValues, finish \in BOOLEAN : CBB_Call("extend", byte_str, finish)

CBB_Finish ==
    /\ ncalls < MaxCalls
    /\ CBB_Call("finish", <<>>, TRUE)

\* B64Stream.extend: an exception of ChunkedByteBuffer.extend propagates
\* before the chunk is built and pushed to b64_string.
B64Stream_extend(op, byte_str, finish) ==
    LET r == ChunkedByteBuffer_extend(cbb_self, byte_str, finish)
        string == b64encode(r.ret.value)
    IN  /\ cbb_byte_buffer' = r.byte_buffer
        /\ cbb_cursor' = r.cursor
        /\ IF r.ret.kind = "raise"
           THEN /\ ret' = r.ret
                /\ UNCHANGED <<b64_string, output>>
           ELSE /\ b64_string' = BufferStringBuffer_push(b64_string, string)
                /\ ret' = Return(string)
                /\ output' = output \o string
        /\ input' = input \o byte_str
        /\ nfinish' = nfinish + (IF finish THEN 1 ELSE 0)
        /\ ncalls' = ncalls + 1
        /\ call' = [op |-> op, data |-> byte_str, finish |-> finish]
        /\ UNCHANGED <<cbb_chunk_size, bsVars, wavVars, mp3Vars, pcmVars, encVars, asyncVars, bufVars>>

B64_Extend ==
    /\ ncalls < MaxCalls
    /\ \E byte_str \in DataValues, finish \in BOOLEAN : B64Stream_extend("extend", byte_str, finish)

B64_Finish ==
    /\ ncalls < MaxCalls
    /\ B64Stream_extend("finish", <<>>, TRUE)

B64_String ==
    /\ ret' = Return(BufferStringBuffer_value(b64_string))
    /\ call' = [op |-> "string", data |-> <<>>, finish |-> FALSE]
    /\ UNCHANGED <<cbbVars, bsVars, wavVars, mp3Vars, pcmVars, encVars, asyncVars, bufVars, input, output, nfinish, ncalls>>

----------------------------------------------------------------------------
(* base_64_stream.Base64Stream *)

\* Variant that forgets to advance the cursor.
Base64Stream_extend_stale_cursor(byte_str, finish) ==
    LET appended == bs_byte_str \o byte_str
        end == IF finish THEN Len(appended)
               ELSE largest_multiple_leq(CHUNK_SIZE, Len(appended))
        slice == PySlice(appended, bs_cursor, end)
        base64_str == b64encode(slice)
    IN  /\ bs_byte_str' = appended
        /\ bs_cursor' = bs_cursor
        /\ bs_string_buffer' = StringBuffer_push(bs_string_buffer, base64_str)
        /\ ret' = Return(base64_str)
        /\ output' = output \o base64_str
        /\ input' = input \o byte_str
        /\ nfinish' = nfinish + (IF finish THEN 1 ELSE 0)
        /\ ncalls' = ncalls + 1

\* Variant that leaves the text of a finishing call out of the accumulator.
Base64Stream_extend_unrecorded_tail(byte_str, finish) ==
    LET appended == bs_byte_str \o byte_str
        end == IF finish THEN Len(appended)
               ELSE largest_multiple_leq(CHUNK_SIZE, Len(appended))
        slice == PySlice(appended, bs_cursor, end)
        base64_str == b64encode(slice)
    IN  /\ bs_byte_str' = appended
        /\ bs_cursor' = end
        /\ bs_string_buffer' = IF finish THEN bs_string_buffer
                               ELSE StringBuffer_push(bs_string_buffer, base64_str)
        /\ ret' = Return(base64_str)
        /\ output' = output \o base64_str
        /\ input' = input \o byte_str
        /\ nfinish' = nfinish + (IF finish THEN 1 ELSE 0)
        /\ ncalls' = ncalls + 1

Base64Stream_extend(byte_str, finish) ==
    LET appended == bs_byte_str \o byte_str
        end == IF finish THEN Len(appended)
               ELSE largest_multiple_leq(CHUNK_SIZE, Len(appended))
        slice == PySlice(appended, bs_cursor, end)
        base64_str == b64encode(slice)
    IN  /\ bs_byte_str' = appended
        /\ bs_cursor' = end
        /\ bs_string_buffer' = StringBuffer_push(bs_string_buffer, base64_str)
        /\ ret' = Return(base64_str)
        /\ output' = output \o base64_str
        /\ input' = input \o byte_str
        /\ nfinish' = nfinish + (IF finish THEN 1 ELSE 0)
        /\ ncalls' = ncalls + 1

BS_Extend ==
    /\ ncalls < MaxCalls
    /\ \E byte_str \in DataValues, finish \in BOOLEAN :
          /\ Base64Stream_extend(byte_str, finish)
          /\ call' = [op |-> "extend", data |-> byte_str, finish |-> finish]
    /\ UNCHANGED <<cbbVars, wavVars, mp3Vars, pcmVars, encVars, asyncVars, bufVars>>

BS_Finish ==
    /\ ncalls < MaxCalls
    /\ Base64Stream_extend(<<>>, TRUE)
    /\ call' = [op |-> "finish", data |-> <<>>, finish |-> TRUE]
    /\ UNCHANGED <<cbbVars, wavVars, mp3Vars, pcmVars, encVars, asyncVars, bufVars>>

\* Variant that pops the accumulator instead of reading it.
BS_String_pop ==
    /\ ret' = Return(StringBuffer_string(bs_string_buffer))
    /\ bs_string_buffer' = StringBuffer_new
    /\ call' = [op |-> "string", data |-> <<>>, finish |-> FALSE]
    /\ UNCHANGED <<bs_byte_str, bs_cursor, cbbVars, wavVars, mp3Vars, pcmVars, encVars, asyncVars, bufVars, input, output, nfinish, ncalls>>

BS_String ==
    /\ ret' = Return(StringBuffer_string(bs_string_buffer))
    /\ call' = [op |-> "string", data |-> <<>>, finish |-> FALSE]
    /\ UNCHANGED <<bsVars, cbbVars, wavVars, mp3Vars, pcmVars, encVars, asyncVars, bufVars, input, output, nfinish, ncalls>>

----------------------------------------------------------------------------
(* audio.Audio: data is a sequence of frames, a frame has one 16-bit sample *)
(* per channel.  Encoded output is a sequence of tokens [field, val]: a     *)
(* PCM byte is [field |-> "pcm", val |-> byte] and a header field carries   *)
(* the name of the RIFF/WAVE field it stands for.                           *)

SampleRates == {8000, 16000}
ChannelCounts == {1, 2}
SampleValues == {-1, 1}

Frames(num_channels) == SeqsUpTo(SampleValues, num_channels) \ SeqsUpTo(SampleValues, num_channels - 1)

Audios ==
    UNION {[data : SeqsUpTo(Frames(c), MaxFrames), sample_rate : SampleRates, num_channels : {c}]
            : c \in ChannelCounts}

Audio_num_frames(audio) == Len(audio.data)

Audio_is_empty(audio) == Audio_num_frames(audio) = 0

Audio_info(audio) == [sample_rate |-> audio.sample_rate, num_channels |-> audio.num_channels]

\* AudioFormat.PCM_S16LE.value.pcm_sample_width
PCM_S16LE_SAMPLE_WIDTH == 2

PcmByte(b) == [field |-> "pcm", val |-> b]

\* One sample as 16-bit two's complement, little endian.
S16LE(sample) ==
    LET u == sample % 65536
    IN  <<PcmByte(u % 256), PcmByte(u \div 256)>>

RECURSIVE FrameBytes(_)
FrameBytes(frame) ==
    IF Len(frame) = 0 THEN <<>> ELSE S16LE(Head(frame)) \o FrameBytes(Tail(frame))

\* Audio.byte_str(audio_format=PCM_S16LE): headerless interleaved samples.
RECURSIVE DataBytes(_)
DataBytes(data) ==
    IF Len(data) = 0 THEN <<>> ELSE FrameBytes(Head(data)) \o DataBytes(Tail(data))

Audio_byte_str(audio) == DataBytes(audio.data)

----------------------------------------------------------------------------
(* audio_encoder.WavAudioEncoder *)

\* Duration.sample_index: the number of samples a duration spans.
Duration_sample_index(seconds, sample_rate) == seconds * sample_rate

HeaderField(field, val) == [field |-> field, val |-> val]

\* The header wave.Wave_write emits on writeframesraw(b""): the declared
\* data length comes from setnframes.  bytes_io.getvalue() is taken inside
\* the with block, before close() would patch the lengths.
WavAudioEncoder_wav_byte_buffer(header_duration, audio_info) ==
    LET num_frames == Duration_sample_index(header_duration, audio_info.sample_rate)
        sampwidth == PCM_S16LE_SAMPLE_WIDTH
        datalength == num_frames * audio_info.num_channels * sampwidth
    IN  << HeaderField("RIFF", 36 + datalength),
           HeaderField("WAVE", 0),
           HeaderField("fmt ", 16),
           HeaderField("format_tag", 1),
           HeaderField("nchannels", audio_info.num_channels),
           HeaderField("framerate", audio_info.sample_rate),
           HeaderField("byterate", audio_info.num_channels * audio_info.sample_rate * sampwidth),
           HeaderField("blockalign", audio_info.num_channels * sampwidth),
           HeaderField("bits", sampwidth * 8),
           HeaderField("data", datalength) >>

\* Variant that never records that the header has been yielded.
WavAudioEncoder_push_forgets_header(yielded_header, header_duration, audio, finish) ==
    LET pcm_byte_str == Audio_byte_str(audio)
    IN  IF yielded_header
        THEN [yielded_header |-> yielded_header, ret |-> Return(pcm_byte_str)]
        ELSE [yielded_header |-> FALSE,
              ret |-> Return(ByteBuffer_push(
                          WavAudioEncoder_wav_byte_buffer(header_duration, Audio_info(audio)),
                          pcm_byte_str))]

\* Variant that withholds the header until a batch carries frames.
WavAudioEncoder_push_header_needs_frames(yielded_header, header_duration, audio, finish) ==
    LET pcm_byte_str == Audio_byte_str(audio)
    IN  IF yielded_header \/ Audio_is_empty(audio)
        THEN [yielded_header |-> yielded_header, ret |-> Return(pcm_byte_str)]
        ELSE [yielded_header |-> TRUE,
              ret |-> Return(ByteBuffer_push(
                          WavAudioEncoder_wav_byte_buffer(header_duration, Audio_info(audio)),
                          pcm_byte_str))]

\* The outcome of push: the flag after the call and the returned bytes.
WavAudioEncoder_push(yielded_header, header_duration, audio, finish) ==
    LET pcm_byte_str == Audio_byte_str(audio)
    IN  IF yielded_header
        THEN [yielded_header |-> yielded_header, ret |-> Return(pcm_byte_str)]
        ELSE [yielded_header |-> TRUE,
              ret |-> Return(ByteBuffer_push(
                          WavAudioEncoder_wav_byte_buffer(header_duration, Audio_info(audio)),
                          pcm_byte_str))]

Wav_Push ==
    /\ ncalls < MaxPush
    /\ \E audio \in Audios, finish \in BOOLEAN :
          LET r == WavAudioEncoder_push(wav_yielded_header, wav_header_duration, audio, finish)
          IN  /\ wav_yielded_header' = r.yielded_header
              /\ ret' = r.ret
              /\ output' = output \o r.ret.value
              /\ input' = input \o Audio_byte_str(audio)
              /\ call' = [op |-> "push", data |-> audio, finish |-> finish]
              /\ nfinish' = nfinish + (IF finish THEN 1 ELSE 0)
              /\ ncalls' = ncalls + 1
    /\ UNCHANGED <<wav_header_duration, cbbVars, bsVars, mp3Vars, pcmVars, encVars, asyncVars, bufVars>>

----------------------------------------------------------------------------
(* The lameenc codec object held by Mp3AudioEncoder.  Its output is opaque: *)
(* an encode or flush call returns one token that carries the position of   *)
(* the call in the codec's log.  flush is legal only after a non-empty      *)
(* block has been encoded.  Whether the codec still accepts calls after a   *)
(* flush is a property of the library build (closes_on_flush).              *)

BIT_RATE == 128
QUALITY == 2

LogEntry(op, num, pcm) == [op |-> op, num |-> num, pcm |-> pcm]

Mp3Token(field, index) == [field |-> field, val |-> index]

\* Mp3AudioEncoder._lame_encoder
Mp3AudioEncoder_lame_encoder(closes_on_flush) ==
    [sample_rate |-> 0, channels |-> 0, encoded_nonempty |-> FALSE, flushed |-> 0,
     closes_on_flush |-> closes_on_flush,
     log |-> <<LogEntry("set_bit_rate", BIT_RATE, <<>>), LogEntry("set_quality", QUALITY, <<>>)>>]

LameEncoder_closed(lame) == lame.closes_on_flush /\ lame.flushed > 0

LameEncoder_encode(lame, pcm_byte_str) ==
    IF LameEncoder_closed(lame)
    THEN [lame |-> lame, ret |-> Raise("RuntimeError")]
    ELSE [lame |-> [lame EXCEPT !.log = Append(@, LogEntry("encode", Len(pcm_byte_str), pcm_byte_str)),
                                !.encoded_nonempty = @ \/ pcm_byte_str # <<>>],
          ret |-> Return(IF pcm_byte_str = <<>> THEN <<>>
                         ELSE <<Mp3Token("mp3", Len(lame.log) + 1)>>)]

LameEncoder_flush(lame) ==
    IF LameEncoder_closed(lame) \/ ~lame.encoded_nonempty
    THEN [lame |-> [lame EXCEPT !.log = Append(@, LogEntry("flush_rejected", 0, <<>>))],
          ret |-> Raise("RuntimeError")]
    ELSE [lame |-> [lame EXCEPT !.log = Append(@, LogEntry("flush", 0, <<>>)),
                                !.flushed = @ + 1],
          ret |-> Return(<<Mp3Token("mp3_flush", Len(lame.log) + 1)>>)]

----------------------------------------------------------------------------
(* audio_encoder.Mp3AudioEncoder *)

\* Audio.silence: num_samples frames of zeros
Audio_silence(num_samples, num_channels, sample_rate) ==
    [data |-> [i \in 1..num_samples |-> [c \in 1..num_channels |-> 0]],
     sample_rate |-> sample_rate, num_channels |-> num_channels]

Mp3AudioEncoder_configure_lame_encoder(lame, audio_info) ==
    [lame EXCEPT !.sample_rate = audio_info.sample_rate,
                 !.channels = audio_info.num_channels,
                 !.log = @ \o <<LogEntry("set_in_sample_rate", audio_info.sample_rate, <<>>),
                                LogEntry("set_channels", audio_info.num_channels, <<>>)>>]

\* _push on self = [lame, is_empty]: encode the batch, then fold its
\* emptiness into is_empty (not reached when encode raises).
\* Variant that overwrites is_empty with the emptiness of the last batch.
Mp3AudioEncoder__push_last_batch(self, audio) ==
    LET e == LameEncoder_encode(self.lame, Audio_byte_str(audio))
    IN  [lame |-> e.lame,
         is_empty |-> IF e.ret.kind = "raise" THEN self.is_empty
                      ELSE Audio_is_empty(audio),
         ret |-> e.ret]

Mp3AudioEncoder__push(self, audio) ==
    LET e == LameEncoder_encode(self.lame, Audio_byte_str(audio))
    IN  [lame |-> e.lame,
         is_empty |-> IF e.ret.kind = "raise" THEN self.is_empty
                      ELSE self.is_empty /\ Audio_is_empty(audio),
         ret |-> e.ret]

\* Variant without the silent frame before the flush.
Mp3AudioEncoder_push_no_silence(self, audio, finish) ==
    LET lame0 == IF ~self.configured
                 THEN Mp3AudioEncoder_configure_lame_encoder(self.lame, Audio_info(audio))
                 ELSE self.lame
        p1 == Mp3AudioEncoder__push([lame |-> lame0, is_empty |-> self.is_empty], audio)
        f == LameEncoder_flush(p1.lame)
    IN  IF p1.ret.kind = "raise" \/ ~finish
        THEN [lame |-> p1.lame, configured |-> TRUE, is_empty |-> p1.is_empty, ret |-> p1.ret]
        ELSE IF f.ret.kind = "raise"
        THEN [lame |-> f.lame, configured |-> TRUE, is_empty |-> p1.is_empty, ret |-> f.ret]
        ELSE [lame |-> f.lame, configured |-> TRUE, is_empty |-> p1.is_empty,
              ret |-> Return(ByteBuffer_push(p1.ret.value, f.ret.value))]

\* Variant that configures the codec from every batch.
Mp3AudioEncoder_push_reconfigures(self, audio, finish) ==
    LET lame0 == Mp3AudioEncoder_configure_lame_encoder(self.lame, Audio_info(audio))
        p1 == Mp3AudioEncoder__push([lame |-> lame0, is_empty |-> self.is_empty], audio)
        silent_audio == Audio_silence(1, audio.num_channels, audio.sample_rate)
        p2 == IF p1.is_empty
              THEN Mp3AudioEncoder__push([lame |-> p1.lame, is_empty |-> p1.is_empty], silent_audio)
              ELSE [lame |-> p1.lame, is_empty |-> p1.is_empty, ret |-> Return(<<>>)]
        f == LameEncoder_flush(p2.lame)
    IN  IF p1.ret.kind = "raise" \/ ~finish
        THEN [lame |-> p1.lame, configured |-> TRUE, is_empty |-> p1.is_empty, ret |-> p1.ret]
        ELSE IF p2.ret.kind = "raise"
        THEN [lame |-> p2.lame, configured |-> TRUE, is_empty |-> p2.is_empty, ret |-> p2.ret]
        ELSE IF f.ret.kind = "raise"
        THEN [lame |-> f.lame, configured |-> TRUE, is_empty |-> p2.is_empty, ret |-> f.ret]
        ELSE [lame |-> f.lame, configured |-> TRUE, is_empty |-> p2.is_empty,
              ret |-> Return(ByteBuffer_push(ByteBuffer_push(p1.ret.value, p2.ret.value),
                                             f.ret.value))]

\* The outcome of push on self = [lame, configured, is_empty].
Mp3AudioEncoder_push(self, audio, finish) ==
    LET lame0 == IF ~self.configured
                 THEN Mp3AudioEncoder_configure_lame_encoder(self.lame, Audio_info(audio))
                 ELSE self.lame
        p1 == Mp3AudioEncoder__push([lame |-> lame0, is_empty |-> self.is_empty], audio)
        silent_audio == Audio_silence(1, audio.num_channels, audio.sample_rate)
        p2 == IF p1.is_empty
              THEN Mp3AudioEncoder__push([lame |-> p1.lame, is_empty |-> p1.is_empty], silent_audio)
              ELSE [lame |-> p1.lame, is_empty |-> p1.is_empty, ret |-> Return(<<>>)]
        f == LameEncoder_flush(p2.lame)
    IN  IF p1.ret.kind = "raise" \/ ~finish
        THEN [lame |-> p1.lame, configured |-> TRUE, is_empty |-> p1.is_empty, ret |-> p1.ret]
        ELSE IF p2.ret.kind = "raise"
        THEN [lame |-> p2.lame, configured |-> TRUE, is_empty |-> p2.is_empty, ret |-> p2.ret]
        ELSE IF f.ret.kind = "raise"
        THEN [lame |-> f.lame, configured |-> TRUE, is_empty |-> p2.is_empty, ret |-> f.ret]
        ELSE [lame |-> f.lame, configured |-> TRUE, is_empty |-> p2.is_empty,
              ret |-> Return(ByteBuffer_push(ByteBuffer_push(p1.ret.value, p2.ret.value),
                                             f.ret.value))]

mp3_self ==
    [lame |-> mp3_lame_encoder, configured |-> mp3_lame_encoder_is_configured,
     is_empty |-> mp3_is_empty]

\* The batches pushed to the MP3 encoder: the codec's output is opaque, so
\* one sample value is enough.
Mp3Audios == {a \in Audios : \A i \in 1..Len(a.data) : \A c \in 1..a.num_channels : a.data[i][c] = 1}

Mp3_Push ==
    /\ ncalls < MaxMp3Push
    /\ \E audio \in Mp3Audios, finish \in BOOLEAN :
          LET r == Mp3AudioEncoder_push(mp3_self, audio, finish)
          IN  /\ mp3_lame_encoder' = r.lame
              /\ mp3_lame_encoder_is_configured' = r.configured
              /\ mp3_is_empty' = r.is_empty
              /\ ret' = r.ret
              /\ output' = output \o r.ret.value
              /\ input' = input \o Audio_byte_str(audio)
              /\ call' = [op |-> "push", data |-> audio, finish |-> finish]
              /\ nfinish' = nfinish + (IF finish THEN 1 ELSE 0)
              /\ ncalls' = ncalls + 1
    /\ UNCHANGED <<cbbVars, bsVars, wavVars, pcmVars, encVars, asyncVars, bufVars>>

\* Mp3AudioEncoder.new
Mp3AudioEncoder_new(closes_on_flush) ==
    /\ mp3_lame_encoder = Mp3AudioEncoder_lame_encoder(closes_on_flush)
    /\ mp3_lame_encoder_is_configured = FALSE
    /\ mp3_is_empty = TRUE

----------------------------------------------------------------------------
(* audio_encoder.PcmAudioEncoder *)

PcmAudioEncoder_new(format) == pcm_audio_format = format

\* Variant that returns nothing for the closing batch.
PcmAudioEncoder_push_drops_on_finish(format, audio, finish) ==
    IF finish THEN Return(<<>>) ELSE Return(Audio_byte_str(audio))

PcmAudioEncoder_push(format, audio, finish) == Return(Audio_byte_str(audio))

Pcm_Push ==
    /\ ncalls < MaxPush
    /\ \E audio \in Audios, finish \in BOOLEAN :
          /\ ret' = PcmAudioEncoder_push(pcm_audio_format, audio, finish)
          /\ output' = output \o PcmAudioEncoder_push(pcm_audio_format, audio, finish).value
          /\ call' = [op |-> "push", data |-> audio, finish |-> finish]
          /\ nfinish' = nfinish + (IF finish THEN 1 ELSE 0)
    /\ ncalls' = ncalls + 1
    /\ UNCHANGED <<cbbVars, bsVars, wavVars, mp3Vars, pcmVars, encVars, asyncVars, bufVars, input>>

----------------------------------------------------------------------------
(* The buffers on their own: buffer.ByteBuffer, buffer.StringBuffer (both   *)
(* with the methods of the Buffer protocol) and string_buffer.StringBuffer. *)
(* input is the concatenation of the values pushed since the buffer was     *)
(* last emptied.                                                            *)

BufferKinds == {"ByteBuffer", "buffer.StringBuffer", "string_buffer.StringBuffer"}

ByteBuffer_reset(byte_array) == <<>>

ByteBuffer_value(byte_array) == byte_array

BufferStringBuffer_len(sb) == sb.length

\* Variant that clears the fragments and keeps the cached length.
BufferStringBuffer_reset_keeps_length(sb) == [strings |-> <<>>, length |-> sb.length]

BufferStringBuffer_reset(sb) == [strings |-> <<>>, length |-> 0]

\* Buffer.pop of the protocol: value(), then reset()
ByteBuffer_pop(byte_array) ==
    [buf |-> ByteBuffer_reset(byte_array), ret |-> Return(ByteBuffer_value(byte_array))]

BufferStringBuffer_pop(sb) ==
    [buf |-> BufferStringBuffer_reset(sb), ret |-> Return(BufferStringBuffer_value(sb))]

\* Variant that leaves the fragments in place.
StringBuffer_pop_keeps_strings(sb) ==
    [buf |-> [strings |-> sb.strings, length |-> 0], ret |-> Return(StringBuffer_string(sb))]

StringBuffer_pop(sb) ==
    [buf |-> [strings |-> <<>>, length |-> 0], ret |-> Return(StringBuffer_string(sb))]

Buffer_new(kind) ==
    IF kind = "ByteBuffer" THEN ByteBuffer_new
    ELSE IF kind = "buffer.StringBuffer" THEN BufferStringBuffer_new
    ELSE StringBuffer_new

Buf_Done(op, data) ==
    /\ call' = [op |-> op, data |-> data, finish |-> FALSE]
    /\ UNCHANGED <<buf_kind, cbbVars, bsVars, wavVars, mp3Vars, pcmVars, encVars, asyncVars, output, nfinish>>

Buf_Push ==
    /\ ncalls < MaxBufPush
    /\ \E value \in DataValues :
          /\ buf' = IF buf_kind = "ByteBuffer" THEN ByteBuffer_push(buf, value)
                    ELSE IF buf_kind = "buffer.StringBuffer" THEN BufferStringBuffer_push(buf, value)
                    ELSE StringBuffer_push(buf, value)
          /\ input' = input \o value
          /\ Buf_Done("push", value)
    /\ ret' = Return(<<>>)
    /\ ncalls' = ncalls + 1

Buf_Pop ==
    /\ LET r == IF buf_kind = "ByteBuffer" THEN ByteBuffer_pop(buf)
                ELSE IF buf_kind = "buffer.StringBuffer" THEN BufferStringBuffer_pop(buf)
                ELSE StringBuffer_pop(buf)
       IN  buf' = r.buf /\ ret' = r.ret
    /\ input' = <<>>
    /\ Buf_Done("pop", <<>>)
    /\ UNCHANGED ncalls

Buf_Reset ==
    /\ buf_kind \in {"ByteBuffer", "buffer.StringBuffer"}
    /\ buf' = IF buf_kind = "ByteBuffer" THEN ByteBuffer_reset(buf)
              ELSE BufferStringBuffer_reset(buf)
    /\ ret' = Return(<<>>)
    /\ input' = <<>>
    /\ Buf_Done("reset", <<>>)
    /\ UNCHANGED ncalls

\* value() of the Buffer protocol, string() of string_buffer.StringBuffer
Buf_Value ==
    /\ ret' = Return(IF buf_kind = "ByteBuffer" THEN ByteBuffer_value(buf)
                     ELSE IF buf_kind = "buffer.StringBuffer" THEN BufferStringBuffer_value(buf)
                     ELSE StringBuffer_string(buf))
    /\ Buf_Done("value", <<>>)
    /\ UNCHANGED <<buf, input, ncalls>>

\* len() of the Buffer protocol; string_buffer.StringBuffer exposes its
\* length field.  The result is returned as a one-element sequence.
Buf_Len ==
    /\ ret' = Return(<<IF buf_kind = "ByteBuffer" THEN ByteBuffer_len(buf)
                       ELSE IF buf_kind = "buffer.StringBuffer" THEN BufferStringBuffer_len(buf)
                       ELSE buf.length>>)
    /\ Buf_Done("len", <<>>)
    /\ UNCHANGED <<buf, input, ncalls>>

\* Utils.split: value[:index], value[index:]
Utils_split(value, index) ==
    [left |-> PySlice(value, 0, index), right |-> PySlice(value, index, Len(value))]

\* Variant that empties the buffer instead of keeping the rest.
ByteBuffer_pop_left_drops_rest(byte_array, chunk_size) ==
    IF chunk_size = 0 THEN [buf |-> byte_array, ret |-> Raise("ZeroDivisionError")]
    ELSE LET index == largest_multiple_leq(chunk_size, ByteBuffer_len(byte_array))
         IN  [buf |-> <<>>, ret |-> Return(Utils_split(byte_array, index).left)]

\* ByteBuffer.pop_left(chunk_size), chunk_size >= 0; largest_multiple_leq
\* divides by chunk_size before the buffer is touched.
ByteBuffer_pop_left(byte_array, chunk_size) ==
    IF chunk_size = 0 THEN [buf |-> byte_array, ret |-> Raise("ZeroDivisionError")]
    ELSE LET index == largest_multiple_leq(chunk_size, ByteBuffer_len(byte_array))
             pair == Utils_split(byte_array, index)
         IN  [buf |-> pair.right, ret |-> Return(pair.left)]

\* input keeps what was pushed and has not been handed out yet
Buf_PopLeft ==
    /\ buf_kind = "ByteBuffer"
    /\ \E chunk_size \in 0..MaxChunkSize :
          LET r == ByteBuffer_pop_left(buf, chunk_size)
          IN  /\ buf' = r.buf
              /\ ret' = r.ret
              /\ input' = IF r.ret.kind = "return"
                          THEN SubSeq(input, Len(r.ret.value) + 1, Len(input))
                          ELSE input
              /\ Buf_Done("pop_left", <<chunk_size>>)
    /\ UNCHANGED ncalls

\* ByteBuffer.slice(begin, end); end = None reads to the end of the buffer.
Buf_Slice ==
    /\ buf_kind = "ByteBuffer"
    /\ \E begin \in 0..MaxIndex, end \in 0..MaxIndex, end_is_none \in BOOLEAN :
          /\ ret' = Return(ByteBuffer_slice(buf, begin,
                                            IF end_is_none THEN ByteBuffer_len(buf) ELSE end))
          /\ Buf_Done("slice", <<begin, IF end_is_none THEN -1 ELSE end>>)
    /\ UNCHANGED <<buf, input, ncalls>>

----------------------------------------------------------------------------
(* sink.Sink.aconsume: async with contextlib.aclosing(self) around an       *)
(* async for loop that awaits self.asend(value).  One action per await.     *)
(* snk.log lists the calls made on the sink; an asend, an aclose or the     *)
(* iterator may raise.                                                      *)

SinkValues == {1, 2}

\* the state when aconsume(value_iter) starts: iter holds the values the
\* iterator will produce, iter_raises tells whether it raises after them
Sink_aconsume(values, raises) ==
    [pc |-> "iter", iter |-> values, iter_raises |-> raises, value |-> 0,
     log |-> <<>>, exc |-> "none"]

SinkCall(op, val) == [op |-> op, val |-> val]

Snk_Done(op, data) ==
    /\ call' = [op |-> op, data |-> data, finish |-> FALSE]
    /\ UNCHANGED <<dataVars, mrg, el, mic, output, nfinish, ncalls>>

\* async for: the next value, the end of the iteration, or an exception
Snk_Anext ==
    /\ snk.pc = "iter"
    /\ IF snk.iter # <<>>
       THEN /\ snk' = [snk EXCEPT !.pc = "send", !.value = Head(snk.iter), !.iter = Tail(snk.iter)]
            /\ input' = Append(input, Head(snk.iter))
            /\ ret' = Return(<<Head(snk.iter)>>)
       ELSE /\ snk' = [snk EXCEPT !.pc = "close",
                                  !.exc = IF snk.iter_raises THEN "IteratorError" ELSE "none"]
            /\ input' = input
            /\ ret' = IF snk.iter_raises THEN Raise("IteratorError")
                      ELSE Raise("StopAsyncIteration")
    /\ Snk_Done("anext", <<>>)

\* Variant without the aclosing block: an exception of asend leaves
\* aconsume at once.
Snk_Asend_no_aclosing ==
    /\ snk.pc = "send"
    /\ \E raises \in BOOLEAN :
          /\ snk' = [snk EXCEPT !.log = Append(snk.log, SinkCall("asend", snk.value)),
                                !.pc = IF raises THEN "done" ELSE "iter",
                                !.exc = IF raises THEN "SendError" ELSE "none"]
          /\ ret' = IF raises THEN Raise("SendError") ELSE Return(<<>>)
    /\ input' = input
    /\ Snk_Done("asend", <<snk.value>>)

\* await self.asend(value)
Snk_Asend ==
    /\ snk.pc = "send"
    /\ \E raises \in BOOLEAN :
          /\ snk' = [snk EXCEPT !.log = Append(snk.log, SinkCall("asend", snk.value)),
                                !.pc = IF raises THEN "close" ELSE "iter",
                                !.exc = IF raises THEN "SendError" ELSE "none"]
          /\ ret' = IF raises THEN Raise("SendError") ELSE Return(<<>>)
    /\ input' = input
    /\ Snk_Done("asend", <<snk.value>>)

\* aclosing.__aexit__: await self.aclose(), then the exception in flight (or
\* the one aclose raised) leaves aconsume
Snk_Aclose ==
    /\ snk.pc = "close"
    /\ \E raises \in BOOLEAN :
          LET exc == IF raises THEN "CloseError" ELSE snk.exc
          IN  /\ snk' = [snk EXCEPT !.log = Append(snk.log, SinkCall("aclose", 0)),
                                    !.pc = "done", !.exc = exc]
              /\ ret' = IF exc = "none" THEN Return(<<>>) ELSE Raise(exc)
    /\ input' = input
    /\ Snk_Done("aclose", <<>>)

----------------------------------------------------------------------------
(* utils.Utils.amerge and utils.Utils.await_first *)

\* the state after the dictionary of anext tasks is built: one pending task
\* per source; items[i] lists what source i will produce
amerge_new(items) ==
    [items |-> items, remaining |-> items,
     tasks |-> {[id |-> i, src |-> i, status |-> "pending", result |-> 0] : i \in 1..Len(items)},
     next_id |-> Len(items) + 1,
     pc |-> "while", completed |-> {}, cur |-> 0]

\* the task of the dictionary with this id
MergeTask(id) == CHOOSE t \in mrg.tasks : t.id = id

Mrg_Done(op, data) ==
    /\ call' = [op |-> op, data |-> data, finish |-> FALSE]
    /\ UNCHANGED <<dataVars, snk, el, mic, input, nfinish, ncalls>>

\* The event loop runs a pending anext task to completion: the source hands
\* over its next value or raises StopAsyncIteration.  Other tasks run only
\* while the generator is suspended: in await_first or at its yield.
Mrg_TaskCompletes ==
    /\ mrg.pc \in {"while", "yield"}
    /\ \E t \in mrg.tasks :
          /\ t.status = "pending"
          /\ LET rest == mrg.remaining[t.src]
                 done == IF rest # <<>>
                         THEN [t EXCEPT !.status = "value", !.result = Head(rest)]
                         ELSE [t EXCEPT !.status = "stop"]
             IN  /\ mrg' = [mrg EXCEPT !.tasks = (mrg.tasks \ {t}) \cup {done},
                                       !.remaining[t.src] = IF rest # <<>> THEN Tail(rest) ELSE rest]
                 /\ Mrg_Done("anext", <<t.src>>)
    /\ UNCHANGED <<ret, output>>

\* while 0 < len(dict): await_first(*dict.keys()) returns once a task is
\* done, with every task that is done by then (asyncio.wait, FIRST_COMPLETED)
Mrg_AwaitFirst ==
    /\ mrg.pc = "while"
    /\ \E t \in mrg.tasks : t.status # "pending"
    /\ mrg' = [mrg EXCEPT !.pc = "for",
                          !.completed = {t.id : t \in {u \in mrg.tasks : u.status # "pending"}}]
    /\ Mrg_Done("await_first", <<>>)
    /\ UNCHANGED <<ret, output>>

\* the while condition fails: the generator returns
Mrg_End ==
    /\ mrg.pc = "while"
    /\ mrg.tasks = {}
    /\ mrg' = [mrg EXCEPT !.pc = "end"]
    /\ ret' = Raise("StopAsyncIteration")
    /\ Mrg_Done("end", <<>>)
    /\ UNCHANGED output

\* for completed_anext_task in completed_anext_tasks (a set: any order):
\* yield its result, or on StopAsyncIteration pop it from the dictionary
Mrg_ForNext ==
    /\ mrg.pc = "for"
    /\ IF mrg.completed = {}
       THEN /\ mrg' = [mrg EXCEPT !.pc = "while"]
            /\ UNCHANGED <<ret, output>>
       ELSE \E id \in mrg.completed :
               LET t == MergeTask(id)
               IN  IF t.status = "value"
                   THEN /\ mrg' = [mrg EXCEPT !.pc = "yield", !.cur = id]
                        /\ ret' = Return(<<t.result>>)
                        /\ output' = Append(output, t.result)
                   ELSE /\ mrg' = [mrg EXCEPT !.tasks = mrg.tasks \ {t},
                                              !.completed = mrg.completed \ {id}]
                        /\ UNCHANGED <<ret, output>>
    /\ Mrg_Done("for", <<>>)

\* Variant whose finally clause does not pop the completed task.
Mrg_Resume_no_pop ==
    /\ mrg.pc = "yield"
    /\ LET t == MergeTask(mrg.cur)
           anext_task == [id |-> mrg.next_id, src |-> t.src, status |-> "pending", result |-> 0]
       IN  mrg' = [mrg EXCEPT !.tasks = mrg.tasks \cup {anext_task},
                              !.next_id = mrg.next_id + 1,
                              !.completed = mrg.completed \ {mrg.cur},
                              !.pc = "for", !.cur = 0]
    /\ Mrg_Done("resume", <<>>)
    /\ UNCHANGED <<ret, output>>

\* The consumer asks for the next value: the generator resumes after the
\* yield, creates the next anext task of the same source (else clause) and
\* pops the completed one (finally clause).
Mrg_Resume ==
    /\ mrg.pc = "yield"
    /\ LET t == MergeTask(mrg.cur)
           anext_task == [id |-> mrg.next_id, src |-> t.src, status |-> "pending", result |-> 0]
       IN  mrg' = [mrg EXCEPT !.tasks = (mrg.tasks \cup {anext_task}) \ {t},
                              !.next_id = mrg.next_id + 1,
                              !.completed = mrg.completed \ {mrg.cur},
                              !.pc = "for", !.cur = 0]
    /\ Mrg_Done("resume", <<>>)
    /\ UNCHANGED <<ret, output>>

\* what source i produces: its j-th value is 10 * i + j
SourceItems(i, n) == [j \in 1..n |-> 10 * i + j]

----------------------------------------------------------------------------
(* eleven_labs.ElevenLabs *)

\* Python's None as a timeout: no deadline
None == -1

AITER_AUDIO_TIMEOUT_DELAY_SECS == 1

\* ElevenLabs.new with a websocket that will still deliver messages, and an
\* aiter_audio() about to start
ElevenLabs_new(messages) ==
    [aiter_audio_timeout_delay_secs |-> None, websocket |-> messages,
     pc |-> "while", deadline |-> None]

AudioMessages == {1, 2}

El_Done(op) ==
    /\ call' = [op |-> op, data |-> <<>>, finish |-> FALSE]
    /\ UNCHANGED <<dataVars, snk, mrg, mic, input, nfinish, ncalls>>

\* async with asyncio.timeout(self.aiter_audio_timeout_delay_secs): the
\* delay is read when the block is entered, and the receive starts
El_EnterTimeout ==
    /\ el.pc = "while"
    /\ el' = [el EXCEPT !.pc = "recv", !.deadline = el.aiter_audio_timeout_delay_secs]
    /\ El_Done("timeout")
    /\ UNCHANGED <<ret, output>>

\* anext_audio() returns the next message of the websocket, which
\* aiter_audio yields to its consumer
El_Receive ==
    /\ el.pc = "recv"
    /\ el.websocket # <<>>
    /\ el' = [el EXCEPT !.pc = "yield", !.websocket = Tail(el.websocket)]
    /\ ret' = Return(<<Head(el.websocket)>>)
    /\ output' = Append(output, Head(el.websocket))
    /\ El_Done("anext_audio")

\* the consumer asks for the next audio: the timeout block is left and the
\* loop starts over
El_Resume ==
    /\ el.pc = "yield"
    /\ el' = [el EXCEPT !.pc = "while", !.deadline = None]
    /\ El_Done("resume")
    /\ UNCHANGED <<ret, output>>

\* the deadline of the block passes during the receive: TimeoutError, break
El_Timeout ==
    /\ el.pc = "recv"
    /\ el.deadline # None
    /\ el' = [el EXCEPT !.pc = "done", !.deadline = None]
    /\ ret' = Raise("StopAsyncIteration")
    /\ El_Done("TimeoutError")
    /\ UNCHANGED output

\* ElevenLabs.aclose(), called from another task at any moment
El_Aclose ==
    /\ el.aiter_audio_timeout_delay_secs = None
    /\ el' = [el EXCEPT !.aiter_audio_timeout_delay_secs = AITER_AUDIO_TIMEOUT_DELAY_SECS]
    /\ El_Done("aclose")
    /\ UNCHANGED <<ret, output>>

----------------------------------------------------------------------------
(* microphone.Microphone._callback: the sound device calls it on its audio  *)
(* thread, once per captured block and one call after the other; it hands   *)
(* the block to the event loop, which runs audio_queue.append(audio) when   *)
(* it gets to it.  mic.event_loop lists the callbacks the loop has been     *)
(* handed and not run yet, oldest first; input lists the blocks in the      *)
(* order _callback was invoked.  A block is identified by a number.         *)

BlockValues == {1, 2, 3}

\* Microphone.new: audio_queue=Queue.new(), event_loop=get_running_loop()
Microphone_new == [audio_queue |-> <<>>, event_loop |-> <<>>]

\* mkutils.queue.Queue.append: the item goes to the tail of the queue
Queue_append(queue, item) == Append(queue, item)

\* loop.call_soon_threadsafe(callback, arg): the handle is put at the end
\* of the loop's ready queue
call_soon_threadsafe(event_loop, arg) == Append(event_loop, arg)

\* Variant that schedules the append the way a new task would be picked up
\* next: ahead of the callbacks already waiting.
Microphone__callback_runs_next(self, indata) ==
    [self EXCEPT !.event_loop = <<indata>> \o @]

Microphone__callback(self, indata) ==
    [self EXCEPT !.event_loop = call_soon_threadsafe(@, indata)]

Mic_Done(op, data) ==
    /\ call' = [op |-> op, data |-> data, finish |-> FALSE]
    /\ ret' = Return(<<>>)
    /\ UNCHANGED <<dataVars, snk, mrg, el, output, nfinish>>

\* the audio thread delivers a block
Mic_Callback ==
    /\ ncalls < MaxBlocks
    /\ \E indata \in BlockValues :
          /\ mic' = Microphone__callback(mic, indata)
          /\ input' = Append(input, indata)
          /\ Mic_Done("_callback", <<indata>>)
    /\ ncalls' = ncalls + 1

\* the event loop runs the oldest callback it holds: audio_queue.append(audio)
Mic_RunCallback ==
    /\ mic.event_loop # <<>>
    /\ mic' = [audio_queue |-> Queue_append(mic.audio_queue, Head(mic.event_loop)),
               event_loop |-> Tail(mic.event_loop)]
    /\ Mic_Done("append", <<Head(mic.event_loop)>>)
    /\ UNCHANGED <<input, ncalls>>

Init ==
    /\ cbb_byte_buffer = ByteBuffer_new
    /\ cbb_chunk_size = CHUNK_SIZE
    /\ cbb_cursor = 0
    /\ b64_string = BufferStringBuffer_new
    /\ bs_byte_str = <<>>
    /\ bs_string_buffer = StringBuffer_new
    /\ bs_cursor = 0
    /\ wav_yielded_header = FALSE
    /\ wav_header_duration = 0
    /\ Mp3AudioEncoder_new(FALSE)
    /\ PcmAudioEncoder_new("pcm_s16le")
    /\ enc_kind = "pcm"
    /\ snk = Sink_aconsume(<<>>, FALSE)
    /\ mrg = amerge_new(<<>>)
    /\ el = ElevenLabs_new(<<>>)
    /\ mic = Microphone_new
    /\ buf_kind = "ByteBuffer"
    /\ buf = Buffer_new(buf_kind)
    /\ call = NoCall
    /\ ret = NoRet
    /\ input = <<>>
    /\ output = <<>>
    /\ nfinish = 0
    /\ ncalls = 0

Next == BS_Extend \/ BS_Finish \/ BS_String

\* Base64Stream.new() followed by any calls of extend, finish and string
Spec == Init /\ [][Next]_vars

InitChunked ==
    /\ cbb_byte_buffer = ByteBuffer_new
    /\ cbb_chunk_size \in 1..MaxChunkSize
    /\ cbb_cursor = 0
    /\ b64_string = BufferStringBuffer_new
    /\ bs_byte_str = <<>>
    /\ bs_string_buffer = StringBuffer_new
    /\ bs_cursor = 0
    /\ wav_yielded_header = FALSE
    /\ wav_header_duration = 0
    /\ Mp3AudioEncoder_new(FALSE)
    /\ PcmAudioEncoder_new("pcm_s16le")
    /\ enc_kind = "pcm"
    /\ snk = Sink_aconsume(<<>>, FALSE)
    /\ mrg = amerge_new(<<>>)
    /\ el = ElevenLabs_new(<<>>)
    /\ mic = Microphone_new
    /\ buf_kind = "ByteBuffer"
    /\ buf = Buffer_new(buf_kind)
    /\ call = NoCall
    /\ ret = NoRet
    /\ input = <<>>
    /\ output = <<>>
    /\ nfinish = 0
    /\ ncalls = 0

NextChunked == CBB_Extend \/ CBB_Finish

\* ChunkedByteBuffer.new(chunk_size) followed by any calls of extend and finish
SpecChunked == InitChunked /\ [][NextChunked]_vars

InitSink ==
    /\ cbb_byte_buffer = ByteBuffer_new
    /\ cbb_chunk_size = CHUNK_SIZE
    /\ cbb_cursor = 0
    /\ b64_string = BufferStringBuffer_new
    /\ bs_byte_str = <<>>
    /\ bs_string_buffer = StringBuffer_new
    /\ bs_cursor = 0
    /\ wav_yielded_header = FALSE
    /\ wav_header_duration = 0
    /\ Mp3AudioEncoder_new(FALSE)
    /\ PcmAudioEncoder_new("pcm_s16le")
    /\ enc_kind = "pcm"
    /\ buf_kind = "ByteBuffer"
    /\ buf = Buffer_new(buf_kind)
    /\ \E values \in SeqsUpTo(SinkValues, MaxItems), raises \in BOOLEAN :
          snk = Sink_aconsume(values, raises)
    /\ mrg = amerge_new(<<>>)
    /\ el = ElevenLabs_new(<<>>)
    /\ mic = Microphone_new
    /\ call = NoCall
    /\ ret = NoRet
    /\ input = <<>>
    /\ output = <<>>
    /\ nfinish = 0
    /\ ncalls = 0

NextSink == Snk_Anext \/ Snk_Asend \/ Snk_Aclose

\* one call of Sink.aconsume on an iterator of up to MaxItems values
SpecSink == InitSink /\ [][NextSink]_vars

InitMerge ==
    /\ cbb_byte_buffer = ByteBuffer_new
    /\ cbb_chunk_size = CHUNK_SIZE
    /\ cbb_cursor = 0
    /\ b64_string = BufferStringBuffer_new
    /\ bs_byte_str = <<>>
    /\ bs_string_buffer = StringBuffer_new
    /\ bs_cursor = 0
    /\ wav_yielded_header = FALSE
    /\ wav_header_duration = 0
    /\ Mp3AudioEncoder_new(FALSE)
    /\ PcmAudioEncoder_new("pcm_s16le")
    /\ enc_kind = "pcm"
    /\ buf_kind = "ByteBuffer"
    /\ buf = Buffer_new(buf_kind)
    /\ snk = Sink_aconsume(<<>>, FALSE)
    /\ \E k \in 1..MaxSources :
          \E n \in [1..k -> 0..MaxSourceItems] :
              mrg = amerge_new([i \in 1..k |-> SourceItems(i, n[i])])
    /\ el = ElevenLabs_new(<<>>)
    /\ mic = Microphone_new
    /\ call = NoCall
    /\ ret = NoRet
    /\ input = <<>>
    /\ output = <<>>
    /\ nfinish = 0
    /\ ncalls = 0

NextMerge == Mrg_TaskCompletes \/ Mrg_AwaitFirst \/ Mrg_End \/ Mrg_ForNext \/ Mrg_Resume

\* Utils.amerge over 1..MaxSources async iterators, consumed to the end
SpecMerge == InitMerge /\ [][NextMerge]_vars

InitElevenLabs ==
    /\ cbb_byte_buffer = ByteBuffer_new
    /\ cbb_chunk_size = CHUNK_SIZE
    /\ cbb_cursor = 0
    /\ b64_string = BufferStringBuffer_new
    /\ bs_byte_str = <<>>
    /\ bs_string_buffer = StringBuffer_new
    /\ bs_cursor = 0
    /\ wav_yielded_header = FALSE
    /\ wav_header_duration = 0
    /\ Mp3AudioEncoder_new(FALSE)
    /\ PcmAudioEncoder_new("pcm_s16le")
    /\ enc_kind = "pcm"
    /\ buf_kind = "ByteBuffer"
    /\ buf = Buffer_new(buf_kind)
    /\ snk = Sink_aconsume(<<>>, FALSE)
    /\ mrg = amerge_new(<<>>)
    /\ \E messages \in SeqsUpTo(AudioMessages, MaxMessages) : el = ElevenLabs_new(messages)
    /\ mic = Microphone_new
    /\ call = NoCall
    /\ ret = NoRet
    /\ input = <<>>
    /\ output = <<>>
    /\ nfinish = 0
    /\ ncalls = 0

NextElevenLabs == El_EnterTimeout \/ El_Receive \/ El_Resume \/ El_Timeout \/ El_Aclose

\* ElevenLabs.new, one aiter_audio() iteration and an aclose() at any moment
SpecElevenLabs == InitElevenLabs /\ [][NextElevenLabs]_vars

\* The iterator's own steps are taken whenever they stay possible: the event
\* loop runs the generator, a message that is on its way arrives, a deadline
\* that is set expires, and the consumer keeps iterating.  Nothing forces a
\* caller to call aclose.
SpecElevenLabsLive ==
    /\ SpecElevenLabs
    /\ WF_vars(El_EnterTimeout)
    /\ WF_vars(El_Receive)
    /\ WF_vars(El_Resume)
    /\ WF_vars(El_Timeout)

\* chunk_size arguments a caller may hand to ChunkedByteBuffer.new
ChunkSizeArgs == (-1)..MaxChunkSize

InitChunkedNew ==
    /\ \E chunk_size \in ChunkSizeArgs :
          LET r == ChunkedByteBuffer_new(chunk_size)
          IN  /\ cbb_byte_buffer = r.byte_buffer
              /\ cbb_chunk_size = r.chunk_size
              /\ cbb_cursor = r.cursor
              /\ ret = r.ret
              /\ call = [op |-> "new", data |-> <<chunk_size>>, finish |-> FALSE]
    /\ b64_string = BufferStringBuffer_new
    /\ bs_byte_str = <<>>
    /\ bs_string_buffer = StringBuffer_new
    /\ bs_cursor = 0
    /\ wav_yielded_header = FALSE
    /\ wav_header_duration = 0
    /\ Mp3AudioEncoder_new(FALSE)
    /\ PcmAudioEncoder_new("pcm_s16le")
    /\ enc_kind = "pcm"
    /\ snk = Sink_aconsume(<<>>, FALSE)
    /\ mrg = amerge_new(<<>>)
    /\ el = ElevenLabs_new(<<>>)
    /\ mic = Microphone_new
    /\ buf_kind = "ByteBuffer"
    /\ buf = Buffer_new(buf_kind)
    /\ input = <<>>
    /\ output = <<>>
    /\ nfinish = 0
    /\ ncalls = 0

\* ChunkedByteBuffer.new with any integer chunk_size, followed by any calls
\* of extend and finish
SpecChunkedNew == InitChunkedNew /\ [][NextChunked]_vars

\* Utils.largest_multiple_leq(value=value, max_value=max_value)
Lml_Call ==
    \E value \in 1..MaxValue, max_value \in 0..MaxMaxValue :
        /\ call' = [op |-> "largest_multiple_leq", data |-> <<value, max_value>>, finish |-> FALSE]
        /\ ret' = Return(<<largest_multiple_leq(value, max_value)>>)
        /\ UNCHANGED <<cbbVars, bsVars, wavVars, mp3Vars, pcmVars, encVars, asyncVars, bufVars,
                       input, output, nfinish, ncalls>>

\* any calls of Utils.largest_multiple_leq with value >= 1 and max_value >= 0
SpecLml == Init /\ [][Lml_Call]_vars

----------------------------------------------------------------------------
(* utils.Utils.iter_items / aiter_items: each value of the iterable wrapped *)
(* in an Item that knows its index and whether it is the first or the last. *)
(* The generators are run to exhaustion; ret holds the items they yielded.  *)

\* the object() that marks "no value"; the iterables hold values 1..3
SENTINEL == 0

ItemValues == {1, 2, 3}

Item_new(index, value, is_last) ==
    [index |-> index, value |-> value, is_first |-> (index = 0), is_last |-> is_last]

\* Variant that forgets the value held back when the iterable ends.
RECURSIVE iter_items_loop_drops_held(_, _, _)
iter_items_loop_drops_held(value_iter, prev_value, index) ==
    IF value_iter = <<>> THEN <<>>
    ELSE <<Item_new(index, prev_value, FALSE)>>
            \o iter_items_loop_drops_held(Tail(value_iter), Head(value_iter), index + 1)

\* the for loop over the rest of the iterator and the final yield
RECURSIVE iter_items_loop(_, _, _)
iter_items_loop(value_iter, prev_value, index) ==
    IF value_iter = <<>>
    THEN IF prev_value # SENTINEL THEN <<Item_new(index, prev_value, TRUE)>> ELSE <<>>
    ELSE <<Item_new(index, prev_value, FALSE)>>
            \o iter_items_loop(Tail(value_iter), Head(value_iter), index + 1)

\* next(value_iter, SENTINEL), index = 0, then the loop
Utils_iter_items(values) ==
    IF values = <<>> THEN iter_items_loop(<<>>, SENTINEL, 0)
    ELSE iter_items_loop(Tail(values), Head(values), 0)

\* await anext(value_aiter, SENTINEL), index = 0, then the same loop with
\* async for
Utils_aiter_items(values) ==
    IF values = <<>> THEN iter_items_loop(<<>>, SENTINEL, 0)
    ELSE iter_items_loop(Tail(values), Head(values), 0)

Items_Call ==
    \E values \in SeqsUpTo(ItemValues, MaxIterLen), op \in {"iter_items", "aiter_items"} :
        /\ call' = [op |-> op, data |-> values, finish |-> FALSE]
        /\ ret' = Return(IF op = "iter_items" THEN Utils_iter_items(values)
                         ELSE Utils_aiter_items(values))
        /\ UNCHANGED <<cbbVars, bsVars, wavVars, mp3Vars, pcmVars, encVars, asyncVars, bufVars,
                       input, output, nfinish, ncalls>>

\* any calls of Utils.iter_items or Utils.aiter_items on iterables of up to
\* MaxIterLen values
SpecItems == Init /\ [][Items_Call]_vars

----------------------------------------------------------------------------
(* utils.Utils.iter_intervals: the endpoints range(begin, total, chunk_size) *)
(* paired up into intervals.  The generator is run to exhaustion; ret holds  *)
(* the intervals it yielded, or the error range() raised.                    *)

\* mkutils.interval.Interval: a pair of endpoints
Interval(begin, end) == [begin |-> begin, end |-> end]

\* Python's range(start, stop, step) for step >= 1, as the sequence of its
\* elements: start, start + step, ... below stop.
range(start, stop, step) ==
    IF stop <= start THEN <<>>
    ELSE [k \in 1..((stop - start + step - 1) \div step) |-> start + (k - 1) * step]

\* the for loop over the remaining endpoints and the final yield
RECURSIVE iter_intervals_loop(_, _, _, _)
iter_intervals_loop(endpoint_iter, interval_begin, total, exact) ==
    IF endpoint_iter = <<>>
    THEN IF ~exact /\ interval_begin # total THEN <<Interval(interval_begin, total)>> ELSE <<>>
    ELSE <<Interval(interval_begin, Head(endpoint_iter))>>
            \o iter_intervals_loop(Tail(endpoint_iter), Head(endpoint_iter), total, exact)

\* range() refuses a step of 0; an empty range ends the generator at once
Utils_iter_intervals(begin, total, chunk_size, exact) ==
    IF chunk_size = 0 THEN Raise("ValueError")
    ELSE LET endpoint_range == range(begin, total, chunk_size)
         IN  IF endpoint_range = <<>> THEN Return(<<>>)
             ELSE Return(iter_intervals_loop(Tail(endpoint_range), Head(endpoint_range),
                                             total, exact))

Intervals_Call ==
    \E begin \in 0..MaxBegin, total \in 0..MaxTotal, chunk_size \in 0..MaxChunkSize,
       exact \in BOOLEAN :
        /\ call' = [op |-> "iter_intervals", data |-> <<begin, total, chunk_size>>,
                    finish |-> exact]
        /\ ret' = Utils_iter_intervals(begin, total, chunk_size, exact)
        /\ UNCHANGED <<cbbVars, bsVars, wavVars, mp3Vars, pcmVars, encVars, asyncVars, bufVars,
                       input, output, nfinish, ncalls>>

\* any calls of Utils.iter_intervals with 0 <= begin, total, chunk_size;
\* call.finish carries the exact flag
SpecIntervals == Init /\ [][Intervals_Call]_vars

----------------------------------------------------------------------------
(* sentence_splitter.SentenceSplitter: a frozen dataclass around one        *)
(* text_buffer (buf).  Characters are code points: 97 'a', 46 '.', 63 '?',  *)
(* 33 '!'.  input lists the characters pushed so far, output the sentences  *)
(* push returned.  An Optional[str] result is a sequence of at most one     *)
(* string.                                                                  *)

\* ".?!"
TERMINAL_PUNCTUATION == {46, 63, 33}

TextChars == {97, 46, 63}

Texts == SeqsUpTo(TextChars, MaxTextLen)

\* SentenceSplitter.new(): the Buffer protocol has no attribute empty, so
\* the lookup Buffer.empty raises before a splitter is built.
SentenceSplitter_new == Raise("AttributeError")

\* SentenceSplitter.push(text): Utils has no attribute rfind, so the first
\* statement raises before text_buffer is touched; the statements after it
\* (push_text, pop_text, which no buffer of buffer.py or string_buffer.py
\* has either) are never reached.
SentenceSplitter_push(text_buffer, text) ==
    [text_buffer |-> text_buffer, ret |-> Raise("AttributeError")]

\* SentenceSplitter.pop(): none of ByteBuffer, buffer.StringBuffer and
\* string_buffer.StringBuffer has an attribute pop_text.
SentenceSplitter_pop(text_buffer) ==
    [text_buffer |-> text_buffer, ret |-> Raise("AttributeError")]

Ss_New ==
    /\ ret' = SentenceSplitter_new
    /\ Buf_Done("SentenceSplitter.new", <<>>)
    /\ UNCHANGED <<buf, input, ncalls>>

Ss_Push ==
    /\ ncalls < MaxTexts
    /\ \E text \in Texts :
          LET r == SentenceSplitter_push(buf, text)
          IN  /\ buf' = r.text_buffer
              /\ ret' = r.ret
              /\ input' = input \o text
              /\ Buf_Done("SentenceSplitter.push", text)
    /\ ncalls' = ncalls + 1

Ss_Pop ==
    /\ LET r == SentenceSplitter_pop(buf)
       IN  buf' = r.text_buffer /\ ret' = r.ret
    /\ Buf_Done("SentenceSplitter.pop", <<>>)
    /\ UNCHANGED <<input, ncalls>>

----------------------------------------------------------------------------
(* hume_ai.HumeAi.aiter_audio: an async generator over the texts of         *)
(* text_queue and the lines of each text's HTTP response.  It is run until  *)
(* it ends; call.data lists the decoded audio of the response lines in the  *)
(* order they would arrive, ret holds the chunks yielded, or the error the  *)
(* generator ended with.                                                    *)

ResponseLines == SeqsUpTo(DataValues, MaxLines)

\* The first statement, byte_str_buffer = Buffer.empty(), looks up an
\* attribute the Buffer protocol does not have: the first __anext__ raises
\* AttributeError before text_queue is read, whatever the responses would
\* have been.  (push_byte_str, num_bytes and pop_bytes_left, used further
\* down, are not attributes of any buffer of buffer.py either.)
HumeAi_aiter_audio(lines) == Raise("AttributeError")

Hume_AiterAudio ==
    \E lines \in ResponseLines :
        /\ call' = [op |-> "HumeAi.aiter_audio", data |-> lines, finish |-> FALSE]
        /\ ret' = HumeAi_aiter_audio(lines)
        /\ UNCHANGED <<cbbVars, bsVars, wavVars, mp3Vars, pcmVars, encVars, asyncVars, bufVars,
                       input, output, nfinish, ncalls>>

\* any runs of HumeAi.aiter_audio over up to MaxLines response lines
SpecHumeAi == Init /\ [][Hume_AiterAudio]_vars

NextMicrophone == Mic_Callback \/ Mic_RunCallback

\* Microphone.new() followed by up to MaxBlocks callbacks on the audio
\* thread, interleaved in any way with the event loop running them
SpecMicrophone == Init /\ [][NextMicrophone]_vars

HeaderDurations == {1}

InitWav ==
    /\ cbb_byte_buffer = ByteBuffer_new
    /\ cbb_chunk_size = CHUNK_SIZE
    /\ cbb_cursor = 0
    /\ b64_string = BufferStringBuffer_new
    /\ bs_byte_str = <<>>
    /\ bs_string_buffer = StringBuffer_new
    /\ bs_cursor = 0
    /\ wav_yielded_header = FALSE
    /\ wav_header_duration \in HeaderDurations
    /\ Mp3AudioEncoder_new(FALSE)
    /\ PcmAudioEncoder_new("pcm_s16le")
    /\ enc_kind = "wav"
    /\ snk = Sink_aconsume(<<>>, FALSE)
    /\ mrg = amerge_new(<<>>)
    /\ el = ElevenLabs_new(<<>>)
    /\ mic = Microphone_new
    /\ buf_kind = "ByteBuffer"
    /\ buf = Buffer_new(buf_kind)
    /\ call = NoCall
    /\ ret = NoRet
    /\ input = <<>>
    /\ output = <<>>
    /\ nfinish = 0
    /\ ncalls = 0

NextWav == Wav_Push

\* WavAudioEncoder.new(PCM_S16LE, header_duration) followed by any push calls
SpecWav == InitWav /\ [][NextWav]_vars

InitMp3 ==
    /\ cbb_byte_buffer = ByteBuffer_new
    /\ cbb_chunk_size = CHUNK_SIZE
    /\ cbb_cursor = 0
    /\ b64_string = BufferStringBuffer_new
    /\ bs_byte_str = <<>>
    /\ bs_string_buffer = StringBuffer_new
    /\ bs_cursor = 0
    /\ wav_yielded_header = FALSE
    /\ wav_header_duration = 0
    /\ \E closes_on_flush \in BOOLEAN : Mp3AudioEncoder_new(closes_on_flush)
    /\ PcmAudioEncoder_new("pcm_s16le")
    /\ enc_kind = "mp3"
    /\ snk = Sink_aconsume(<<>>, FALSE)
    /\ mrg = amerge_new(<<>>)
    /\ el = ElevenLabs_new(<<>>)
    /\ mic = Microphone_new
    /\ buf_kind = "ByteBuffer"
    /\ buf = Buffer_new(buf_kind)
    /\ call = NoCall
    /\ ret = NoRet
    /\ input = <<>>
    /\ output = <<>>
    /\ nfinish = 0
    /\ ncalls = 0

NextMp3 == Mp3_Push

\* Mp3AudioEncoder.new(PCM_S16LE) followed by any push calls
SpecMp3 == InitMp3 /\ [][NextMp3]_vars

InitEnc == InitWav \/ InitMp3

NextEnc == (enc_kind = "wav" /\ Wav_Push) \/ (enc_kind = "mp3" /\ Mp3_Push)

\* a WavAudioEncoder or an Mp3AudioEncoder, followed by any push calls
SpecEnc == InitEnc /\ [][NextEnc]_vars

PcmFormats == {"pcm_s16le"}

InitPcm ==
    /\ cbb_byte_buffer = ByteBuffer_new
    /\ cbb_chunk_size = CHUNK_SIZE
    /\ cbb_cursor = 0
    /\ b64_string = BufferStringBuffer_new
    /\ bs_byte_str = <<>>
    /\ bs_string_buffer = StringBuffer_new
    /\ bs_cursor = 0
    /\ wav_yielded_header = FALSE
    /\ wav_header_duration = 0
    /\ Mp3AudioEncoder_new(FALSE)
    /\ \E format \in PcmFormats : PcmAudioEncoder_new(format)
    /\ enc_kind = "pcm"
    /\ snk = Sink_aconsume(<<>>, FALSE)
    /\ mrg = amerge_new(<<>>)
    /\ el = ElevenLabs_new(<<>>)
    /\ mic = Microphone_new
    /\ buf_kind = "ByteBuffer"
    /\ buf = Buffer_new(buf_kind)
    /\ call = NoCall
    /\ ret = NoRet
    /\ input = <<>>
    /\ output = <<>>
    /\ nfinish = 0
    /\ ncalls = 0

NextPcm == Pcm_Push

\* PcmAudioEncoder.new(PCM_S16LE) followed by any push calls
SpecPcm == InitPcm /\ [][NextPcm]_vars

InitBuf ==
    /\ cbb_byte_buffer = ByteBuffer_new
    /\ cbb_chunk_size = CHUNK_SIZE
    /\ cbb_cursor = 0
    /\ b64_string = BufferStringBuffer_new
    /\ bs_byte_str = <<>>
    /\ bs_string_buffer = StringBuffer_new
    /\ bs_cursor = 0
    /\ wav_yielded_header = FALSE
    /\ wav_header_duration = 0
    /\ Mp3AudioEncoder_new(FALSE)
    /\ PcmAudioEncoder_new("pcm_s16le")
    /\ enc_kind = "pcm"
    /\ snk = Sink_aconsume(<<>>, FALSE)
    /\ mrg = amerge_new(<<>>)
    /\ el = ElevenLabs_new(<<>>)
    /\ mic = Microphone_new
    /\ buf_kind \in BufferKinds
    /\ buf = Buffer_new(buf_kind)
    /\ call = NoCall
    /\ ret = NoRet
    /\ input = <<>>
    /\ output = <<>>
    /\ nfinish = 0
    /\ ncalls = 0

NextBuf ==
    Buf_Push \/ Buf_Pop \/ Buf_Reset \/ Buf_Value \/ Buf_Len \/ Buf_Slice \/ Buf_PopLeft

\* ByteBuffer.new(), buffer.StringBuffer.new() or string_buffer.StringBuffer.new()
\* followed by any calls of its methods
SpecBuf == InitBuf /\ [][NextBuf]_vars

NextSplitter == Ss_New \/ Ss_Push \/ Ss_Pop

\* SentenceSplitter(text_buffer=<a new buffer>) followed by any calls of
\* new, push and pop
SpecSplitter == InitBuf /\ [][NextSplitter]_vars

NextB64 == B64_Extend \/ B64_Finish \/ B64_String

\* B64Stream.new() followed by any calls of extend, finish and string
SpecB64 == Init /\ [][NextB64]_vars

----------------------------------------------------------------------------
(* Properties of Base64Stream, checked under Spec *)

\* C3: for any split of an input into extend calls followed by one finish,
\* the base64 strings returned by the calls, concatenated in call order,
\* equal the single-shot base64 encoding of the whole input.
C3_ChunkedEqualsSingleShot ==
    (call.op \in {"extend", "finish"} /\ call.finish /\ nfinish = 1)
        => output = b64encode(input)

C3_Witness ==
    /\ call.op = "finish" /\ nfinish = 1 /\ ncalls >= 3
    /\ Len(input) % CHUNK_SIZE # 0 /\ Len(input) > CHUNK_SIZE
    /\ output = b64encode(input)

\* C5: as long as no finish has been issued, the cursor is a multiple of
\* the chunk size.
C5_CursorAlignedBeforeFinish ==
    ~finished => bs_cursor % CHUNK_SIZE = 0

C5_Witness ==
    /\ ~finished /\ call.op = "extend"
    /\ bs_cursor > 0 /\ bs_cursor < Len(bs_byte_str)

\* C6: once finish has released the tail, extend with empty input and
\* finish=false returns an empty result, does not raise, and leaves the
\* cursor and the buffered bytes as they were.
C6_EmptyExtendAfterFinishIsNoOp ==
    [][(finished /\ bs_cursor = Len(bs_byte_str)
          /\ call'.op = "extend" /\ call'.data = <<>> /\ ~call'.finish)
        => (/\ ret'.kind = "return" /\ ret'.value = <<>>
            /\ bs_cursor' = bs_cursor
            /\ bs_byte_str' = bs_byte_str)]_vars

\* C7: once finished, a later extend that carries data is surfaced as a
\* StreamAlreadyFinished error and releases nothing.
C7_ExtendAfterFinishRaises ==
    [][(finished /\ call'.op = "extend" /\ call'.data # <<>>)
        => (ret'.kind = "raise" /\ ret'.exc = "StreamAlreadyFinished"
            /\ output' = output)]_vars

\* C8: text produced by a call with finish=false never contains '='
\* padding (it never encodes a slice whose length is not a multiple of 3).
C8_NoPaddingWithoutFinish ==
    (call.op = "extend" /\ ~call.finish /\ ret.kind = "return")
        => (~HasPadding(ret.value) /\ Len(ret.value) % 4 = 0)

\* C9: string() is a read-only snapshot: it changes neither the bytes, the
\* cursor nor the accumulated text, it returns the text accumulated by the
\* calls made so far, and a second string() right after returns the same.
C9_StringIsReadOnly ==
    [][call'.op = "string"
        => (/\ bs_byte_str' = bs_byte_str
            /\ bs_cursor' = bs_cursor
            /\ bs_string_buffer' = bs_string_buffer
            /\ ret'.value = output
            /\ (call.op = "string" => ret'.value = ret.value))]_vars

C9_Witness ==
    /\ call.op = "string" /\ ncalls >= 2
    /\ ret.value # <<>> /\ ret.value = StringBuffer_string(bs_string_buffer)

----------------------------------------------------------------------------
(* Properties of ChunkedByteBuffer (SpecChunked) and B64Stream (SpecB64) *)

\* C1: after extend calls with finish=false followed by one finish(), the
\* returned slices, concatenated in call order, are exactly the appended
\* bytes: each byte once, in order.
C1_SlicesConcatenateToInput ==
    (call.op = "finish" /\ nfinish = 1) => output = input

\* C2: B64Stream.string() after the extend calls and finish() is the
\* single-shot base64 encoding of the whole input.
C2_StringEqualsSingleShot ==
    [][(call.op = "finish" /\ nfinish = 1 /\ call'.op = "string")
        => ret'.value = b64encode(input)]_vars

\* C4: ChunkedByteBuffer.extend(data, finish) completes normally, appends
\* data, returns buffer[cursor_before:end] with end the buffer length if
\* finish and else the largest multiple of chunk_size below it, and leaves
\* cursor = end.
C4_ExtendEffect ==
    [][call'.op \in {"extend", "finish"}
        => LET appended == cbb_byte_buffer \o call'.data
               end == IF call'.finish THEN Len(appended)
                      ELSE (Len(appended) \div cbb_chunk_size) * cbb_chunk_size
           IN  /\ ret'.kind = "return"
               /\ cbb_byte_buffer' = appended
               /\ ret'.value = PySlice(appended, cbb_cursor, end)
               /\ cbb_cursor' = end]_vars

----------------------------------------------------------------------------
(* Properties of WavAudioEncoder, checked under SpecWav *)

\* Number of fields of the header written by the wave module.
HeaderLen ==
    Len(WavAudioEncoder_wav_byte_buffer(0, [sample_rate |-> 8000, num_channels |-> 1]))

HeaderPositions(bytes) == {i \in 1..Len(bytes) : bytes[i].field = "RIFF"}

\* C10: after N >= 1 push calls the concatenated output holds exactly one
\* WAV header, at offset 0; the first call returns the header followed by
\* its PCM payload and every later call returns only its PCM payload.
C10_OneHeaderAtOffsetZero ==
    (call.op = "push" /\ ncalls >= 1)
        => /\ HeaderPositions(output) = {1}
           /\ output = SubSeq(output, 1, HeaderLen) \o input
           /\ \A i \in 1..HeaderLen : output[i].field # "pcm"
           /\ ncalls >= 2 => ret.value = Audio_byte_str(call.data)
           /\ ncalls = 1 => ret.value =
                  WavAudioEncoder_wav_byte_buffer(wav_header_duration, Audio_info(call.data))
                      \o Audio_byte_str(call.data)

C10_Witness ==
    /\ call.op = "push" /\ ncalls >= 2
    /\ ret.value # <<>>
    /\ Len(output) > HeaderLen + Len(ret.value)
    /\ HeaderPositions(output) = {1}

----------------------------------------------------------------------------
(* Properties of Mp3AudioEncoder, checked under SpecMp3 *)

lame_log == mp3_lame_encoder.log

FlushCalls(log) == {i \in 1..Len(log) : log[i].op \in {"flush", "flush_rejected"}}

ConfigCalls(log) == {i \in 1..Len(log) : log[i].op \in {"set_in_sample_rate", "set_channels"}}

\* What the codec returned for the encode call logged at position i.
EncodeOutput(log, i) ==
    IF log[i].pcm = <<>> THEN <<>> ELSE <<Mp3Token("mp3", i)>>

\* C11: the codec's flush is never invoked before a non-empty block has
\* been encoded on that codec; push(empty_batch, finish=true) as the first
\* call encodes one silent frame and succeeds with a non-empty result.
C11_FlushOnlyAfterNonEmptyEncode ==
    /\ \A i \in FlushCalls(lame_log) :
          \E j \in 1..(i - 1) : lame_log[j].op = "encode" /\ lame_log[j].pcm # <<>>
    /\ (call.op = "push" /\ ncalls = 1 /\ call.finish /\ Audio_is_empty(call.data))
          => (ret.kind = "return" /\ ret.value # <<>>)

C11_Witness ==
    /\ call.op = "push" /\ ncalls = 1 /\ call.finish /\ Audio_is_empty(call.data)
    /\ ret.kind = "return"
    /\ mp3_lame_encoder.flushed = 1
    /\ \E j \in 1..Len(lame_log) : lame_log[j].op = "encode" /\ lame_log[j].pcm # <<>>

C15_ConfiguredOnceFromFirstBatch ==
    [][call'.op = "push"
        => LET log == mp3_lame_encoder'.log
           IN  /\ Cardinality(ConfigCalls(log)) = 2
               /\ \A i \in ConfigCalls(log) :
                     \A j \in 1..Len(log) : log[j].op = "encode" => i < j
               /\ IF ncalls = 0
                  THEN /\ mp3_lame_encoder'.sample_rate = call'.data.sample_rate
                       /\ mp3_lame_encoder'.channels = call'.data.num_channels
                  ELSE /\ mp3_lame_encoder'.sample_rate = mp3_lame_encoder.sample_rate
                       /\ mp3_lame_encoder'.channels = mp3_lame_encoder.channels]_vars

C15_Witness ==
    /\ call.op = "push" /\ ncalls >= 2
    /\ mp3_lame_encoder_is_configured
    /\ Audio_info(call.data) # [sample_rate |-> mp3_lame_encoder.sample_rate,
                                num_channels |-> mp3_lame_encoder.channels]

----------------------------------------------------------------------------
(* Further properties of WavAudioEncoder, checked under SpecWav *)

\* C13: a push issued after a push(finish=true) has completed is rejected
\* as a caller error and returns no further container bytes.
C13_PushAfterFinishRejected ==
    [][(finished /\ call'.op = "push")
        => (ret'.kind = "raise" /\ output' = output)]_vars

\* C16: push(empty_batch, finish=true) as the first call on a fresh WAV
\* encoder returns exactly the header, with a zero-length PCM body, and
\* leaves the header marked as emitted.
C16_EmptyFinishYieldsHeaderOnly ==
    (call.op = "push" /\ ncalls = 1 /\ call.finish /\ Audio_is_empty(call.data))
        => /\ ret.kind = "return"
           /\ ret.value = WavAudioEncoder_wav_byte_buffer(wav_header_duration, Audio_info(call.data))
           /\ wav_yielded_header

C16_Witness ==
    /\ call.op = "push" /\ ncalls = 1 /\ call.finish /\ Audio_is_empty(call.data)
    /\ Len(ret.value) = HeaderLen
    /\ wav_yielded_header

----------------------------------------------------------------------------
(* audio_encoder.PcmAudioEncoder, buffer.ByteBuffer, buffer.StringBuffer,   *)
(* string_buffer.StringBuffer                                               *)

\* C17: PcmAudioEncoder.push is a stateless pass-through: every push returns
\* exactly the headerless bytes of the batch it was handed in the configured
\* sample format, whatever the finish flag and whatever was pushed before,
\* and the encoder's only field keeps its value.
C17_PcmPushIsPassThrough ==
    [][call'.op = "push" =>
          /\ ret' = Return(Audio_byte_str(call'.data))
          /\ \A i \in 1..Len(ret'.value) : ret'.value[i].field = "pcm"
          /\ pcm_audio_format' = pcm_audio_format]_vars

\* a closing push of a non-empty batch made after an earlier push that
\* returned bytes
C17_Witness ==
    /\ pcm_audio_format = "pcm_s16le"
    /\ call.op = "push" /\ call.finish /\ ncalls >= 2
    /\ ret = Return(Audio_byte_str(call.data))
    /\ ret.value # <<>>
    /\ Len(output) > Len(ret.value)

\* what value() / string() would return
BufferContent ==
    IF buf_kind = "ByteBuffer" THEN ByteBuffer_value(buf)
    ELSE IF buf_kind = "buffer.StringBuffer" THEN BufferStringBuffer_value(buf)
    ELSE StringBuffer_string(buf)

\* what len() / the length field reports
BufferLength ==
    IF buf_kind = "ByteBuffer" THEN ByteBuffer_len(buf)
    ELSE IF buf_kind = "buffer.StringBuffer" THEN BufferStringBuffer_len(buf)
    ELSE buf.length

\* C18: for each of the three buffers, pop() returns the concatenation, in
\* order, of everything pushed since the buffer was last emptied, and the
\* buffer's length is 0 right after the pop.
C18_PopReturnsPushesInOrder ==
    [][call'.op = "pop" => ret' = Return(input) /\ BufferLength' = 0]_vars

\* a pop that returned two pushed values joined, the second pushed last
C18_Witness ==
    /\ call.op = "pop"
    /\ ncalls = MaxBufPush
    /\ Len(ret.value) = 2 * MaxData
    /\ ret.value[1] # ret.value[Len(ret.value)]
    /\ BufferLength = 0

RECURSIVE SumOfLengths(_)
SumOfLengths(strings) ==
    IF Len(strings) = 0 THEN 0 ELSE Len(Head(strings)) + SumOfLengths(Tail(strings))

\* C19: in every state reached by push, reset, pop and value calls the length
\* a buffer reports is the length of its content; the length field of either
\* StringBuffer is the sum of the lengths of the fragments in strings; and a
\* len() call returns that number.
C19_LengthMatchesContent ==
    /\ BufferLength = Len(BufferContent)
    /\ buf_kind # "ByteBuffer" => buf.length = SumOfLengths(buf.strings)
    /\ call.op = "len" => ret = Return(<<Len(BufferContent)>>)

\* a StringBuffer that was emptied and pushed to again reports the length of
\* the one fragment it holds
C19_Witness ==
    /\ buf_kind = "buffer.StringBuffer"
    /\ call.op = "len"
    /\ ncalls = MaxBufPush
    /\ Len(buf.strings) = 1
    /\ ret = Return(<<MaxData>>)
    /\ input = BufferContent

\* begin or end beyond the buffer's length, or begin beyond end
\* (end = -1 stands for end=None)
SliceOutOfRange(begin, end, length) ==
    \/ begin > length
    \/ end # -1 /\ (end > length \/ begin > end)

\* C20: ByteBuffer.slice with begin or end greater than the buffer's length,
\* or begin greater than end, raises an out-of-range error and leaves the
\* buffer as it was.
C20_SliceOutOfRangeRaises ==
    [][(call'.op = "slice" /\ SliceOutOfRange(call'.data[1], call'.data[2], ByteBuffer_len(buf))) =>
          ret'.kind = "raise" /\ buf' = buf]_vars

----------------------------------------------------------------------------
(* ChunkedByteBuffer construction, Utils.largest_multiple_leq, and the      *)
(* cursor of the two base64 streams                                         *)

\* C21: ChunkedByteBuffer.new with chunk_size <= 0 fails at construction with
\* InvalidConfiguration: a buffer whose chunk_size is zero or negative exists
\* in no state, so no extend or finish runs with one.
C21_NonPositiveChunkSizeRejected ==
    cbb_chunk_size >= 1 \/ (call.op = "new" /\ ret = Raise("InvalidConfiguration"))

\* C22: for value >= 1 and max_value >= 0 the result r of
\* largest_multiple_leq is a multiple of value with 0 <= r <= max_value and
\* max_value - r < value, that is floor(max_value / value) * value; for value
\* 3 and max_value 0..6 it is 0, 0, 0, 3, 3, 3, 6.
C22_LargestMultipleIsFloor ==
    call.op = "largest_multiple_leq" =>
        LET value == call.data[1]
            max_value == call.data[2]
            r == ret.value[1]
        IN  /\ ret.kind = "return"
            /\ \E k \in 0..max_value : r = k * value
            /\ r <= max_value
            /\ max_value - r < value
            /\ (value = 3 /\ max_value <= 6) => r = <<0, 0, 0, 3, 3, 3, 6>>[max_value + 1]

\* largest_multiple_leq(value=3, max_value=5) returned 3
C22_Witness ==
    /\ call.op = "largest_multiple_leq"
    /\ call.data = <<3, 5>>
    /\ ret = Return(<<3>>)

\* C23: over any sequence of Base64Stream extend and finish calls, calls
\* made after a finish included, the cursor never decreases and never
\* exceeds the length of the byte buffer.
C23_CursorMonotone ==
    [][bs_cursor' >= bs_cursor /\ bs_cursor' <= Len(bs_byte_str')]_vars

\* C24: after an extend call with finish=false on a stream on which no
\* finish has been issued, fewer than chunk_size bytes are appended but
\* unreleased (buffer length minus cursor).
C24_UnreleasedBelowChunkSize ==
    (call.op = "extend" /\ ~call.finish /\ nfinish = 0) =>
        ByteBuffer_len(cbb_byte_buffer) - cbb_cursor < cbb_chunk_size

\* C25: at every point of a sequence of extend and finish calls on the
\* base64 stream encoder, string() is the in-order concatenation of the
\* texts returned by the calls made so far.
C25_StringIsConcatenationOfReturns ==
    /\ StringBuffer_string(bs_string_buffer) = output
    /\ call.op = "string" => ret = Return(output)

\* string() read after two calls that each returned text, the last one a
\* padded tail
C25_Witness ==
    /\ call.op = "string"
    /\ Len(bs_string_buffer.strings) >= 2
    /\ \A i \in 1..Len(bs_string_buffer.strings) : bs_string_buffer.strings[i] # <<>>
    /\ HasPadding(ret.value)
    /\ ret.value = output

\* C26: when B64Stream.extend (or the ChunkedByteBuffer.extend it calls)
\* raises, the byte buffer, the cursor and the accumulated base64 text are
\* as they were before the call.
C26_FailedExtendLeavesStateUnchanged ==
    [][(call'.op \in {"extend", "finish"} /\ ret'.kind = "raise") =>
          /\ cbb_byte_buffer' = cbb_byte_buffer
          /\ cbb_cursor' = cbb_cursor
          /\ b64_string' = b64_string]_vars

----------------------------------------------------------------------------
(* The state flags of WavAudioEncoder and Mp3AudioEncoder *)

\* C27: the encoder flags are monotone over push calls.  A fresh encoder has
\* yielded_header = false, lame_encoder_is_configured = false and
\* is_empty = true; the first push sets yielded_header (WAV) and
\* lame_encoder_is_configured (MP3) and no later push clears them; is_empty
\* becomes false at the first push that encodes a non-empty batch or the
\* silent frame, and is never true again.
C27_FlagsAreMonotone ==
    [][/\ ncalls = 0 =>
             ~wav_yielded_header /\ ~mp3_lame_encoder_is_configured /\ mp3_is_empty
       /\ wav_yielded_header => wav_yielded_header'
       /\ mp3_lame_encoder_is_configured => mp3_lame_encoder_is_configured'
       /\ ~mp3_is_empty => ~mp3_is_empty'
       /\ (enc_kind = "wav" /\ call'.op = "push") => wav_yielded_header'
       /\ (enc_kind = "mp3" /\ call'.op = "push") =>
             /\ mp3_lame_encoder_is_configured'
             /\ mp3_is_empty =>
                   (mp3_is_empty' <=> (Audio_is_empty(call'.data) /\ ~call'.finish))]_vars

\* an MP3 encoder that took a non-empty batch and then an empty one
C27_Witness ==
    /\ enc_kind = "mp3"
    /\ ncalls >= 2
    /\ call.op = "push" /\ Audio_is_empty(call.data)
    /\ ret.kind = "return"
    /\ input # <<>>
    /\ mp3_lame_encoder_is_configured /\ ~mp3_is_empty

----------------------------------------------------------------------------
(* sink.Sink.aconsume *)

RECURSIVE SentValues(_)
SentValues(log) ==
    IF Len(log) = 0 THEN <<>>
    ELSE IF Head(log).op = "asend" THEN <<Head(log).val>> \o SentValues(Tail(log))
    ELSE SentValues(Tail(log))

AcloseCalls(log) == {i \in 1..Len(log) : log[i].op = "aclose"}

\* C28: aconsume hands the values of the iterator to asend in iteration
\* order, every one of them when nothing raises; aclose is called exactly
\* once by the time aconsume is left, whether the iterator ended, the
\* iterator raised or an asend raised, and not before; no asend follows the
\* aclose.
C28_SendsInOrderThenClosesOnce ==
    /\ SentValues(snk.log) = IF snk.pc = "send" THEN SubSeq(input, 1, Len(input) - 1) ELSE input
    /\ Cardinality(AcloseCalls(snk.log)) = IF snk.pc = "done" THEN 1 ELSE 0
    /\ \A i \in AcloseCalls(snk.log) : i = Len(snk.log)
    /\ (snk.pc = "done" /\ snk.exc = "none") => snk.iter = <<>>

\* aconsume left with the exception of an asend that failed after an
\* earlier value had been sent: the sink was closed once, last
C28_Witness ==
    /\ snk.pc = "done"
    /\ snk.exc = "SendError"
    /\ Len(snk.log) = 3
    /\ snk.log[3].op = "aclose"
    /\ snk.iter_raises \/ snk.iter # <<>>

----------------------------------------------------------------------------
(* utils.Utils.amerge *)

Sources == 1..Len(mrg.items)

\* the values of source i among those yielded so far, in order
RECURSIVE FromSource(_, _)
FromSource(out, i) ==
    IF Len(out) = 0 THEN <<>>
    ELSE IF Head(out) \div 10 = i THEN <<Head(out)>> \o FromSource(Tail(out), i)
    ELSE FromSource(Tail(out), i)

\* the value a completed task of source i holds that was not yielded yet
HeldValue(i) ==
    LET held == {t \in mrg.tasks : t.src = i /\ t.status = "value" /\ t.id # mrg.cur}
    IN  IF held = {} THEN <<>> ELSE <<(CHOOSE t \in held : TRUE).result>>

\* C29: under every interleaving of source completions, what amerge has
\* yielded from a source, the value its completed task still holds and what
\* the source has left make up exactly what the source produces, in order
\* (every value once, per-source order kept); at most one anext task per
\* source is in the dictionary; and the generator ends only with an empty
\* dictionary, every source exhausted and every value yielded.
C29_MergeYieldsEachValueOnceInOrder ==
    /\ \A i \in Sources :
          /\ FromSource(output, i) \o HeldValue(i) \o mrg.remaining[i] = mrg.items[i]
          /\ Cardinality({t \in mrg.tasks : t.src = i}) <= 1
    /\ \A v \in 1..Len(output) : output[v] \div 10 \in Sources
    /\ mrg.pc = "end" =>
          /\ mrg.tasks = {}
          /\ \A i \in Sources : mrg.remaining[i] = <<>> /\ FromSource(output, i) = mrg.items[i]

\* two sources with two values each merged to the end, a value of the
\* second source yielded before the last value of the first
C29_Witness ==
    /\ mrg.pc = "end"
    /\ Len(mrg.items) = 2
    /\ Len(output) = 4
    /\ output[4] \div 10 = 1
    /\ output[1] \div 10 = 2

----------------------------------------------------------------------------
(* eleven_labs.ElevenLabs.aiter_audio *)

\* C30: once aclose() has been called and no further audio message is on its
\* way, aiter_audio eventually ends, whatever the iterator was doing when
\* aclose was called.
C30_ClosedIterationEnds ==
    (el.aiter_audio_timeout_delay_secs # None /\ el.websocket = <<>>) ~> (el.pc = "done")

----------------------------------------------------------------------------
(* buffer.ByteBuffer.pop_left *)

\* C36: ByteBuffer.pop_left(chunk_size) with chunk_size >= 1 returns the
\* prefix of the buffer whose length is the largest multiple of chunk_size
\* not exceeding the buffer length and keeps the rest: the returned bytes
\* followed by the remaining content equal the content before the call, and
\* fewer than chunk_size bytes remain.
C36_PopLeftSplitsAtLargestMultiple ==
    [][(call'.op = "pop_left" /\ call'.data[1] >= 1) =>
          /\ ret'.kind = "return"
          /\ ret'.value \o buf' = buf
          /\ \E k \in 0..Len(buf) : Len(ret'.value) = k * call'.data[1]
          /\ Len(buf') < call'.data[1]]_vars

\* pop_left(3) on four bytes handed out three and kept the one pushed last
C36_Witness ==
    /\ buf_kind = "ByteBuffer"
    /\ call = [op |-> "pop_left", data |-> <<3>>, finish |-> FALSE]
    /\ ncalls = MaxBufPush
    /\ Len(ret.value) = 3
    /\ Len(buf) = 1
    /\ input = buf

----------------------------------------------------------------------------
(* utils.Utils.iter_items / aiter_items *)

\* C34: iter_items and aiter_items yield, for an input of n values, exactly
\* n items carrying the values in order with indices 0..n-1, is_first true
\* only on index 0 and is_last true on exactly the final item; an empty
\* input yields no item.
C34_ItemsCarryIndexFirstLast ==
    call.op \in {"iter_items", "aiter_items"} =>
        /\ ret.kind = "return"
        /\ Len(ret.value) = Len(call.data)
        /\ \A i \in 1..Len(ret.value) :
              /\ ret.value[i].value = call.data[i]
              /\ ret.value[i].index = i - 1
              /\ ret.value[i].is_first = (i = 1)
              /\ ret.value[i].is_last = (i = Len(call.data))

\* aiter_items over three values, the first one repeated at the end
C34_Witness ==
    /\ call.op = "aiter_items"
    /\ call.data = <<2, 1, 2>>
    /\ Len(ret.value) = 3
    /\ ret.value[3] = [index |-> 2, value |-> 2, is_first |-> FALSE, is_last |-> TRUE]
    /\ ret.value[1].is_first

----------------------------------------------------------------------------
(* utils.Utils.iter_intervals *)

\* C35: for begin <= total and chunk_size >= 1, iter_intervals yields
\* contiguous, non-overlapping intervals starting at begin: with exact=false
\* they cover [begin, total) exactly, each of length chunk_size except
\* possibly a shorter last one; with exact=true they are exactly all the
\* full chunk_size-length intervals [begin + k*chunk_size,
\* begin + (k+1)*chunk_size) that fit within [begin, total], including the
\* last one when total - begin is a multiple of chunk_size.
C35_IntervalsTileTheRange ==
    (call.op = "iter_intervals" /\ call.data[1] <= call.data[2] /\ call.data[3] >= 1) =>
        LET begin == call.data[1]
            total == call.data[2]
            chunk_size == call.data[3]
            exact == call.finish
            n == Len(ret.value)
        IN  /\ ret.kind = "return"
            /\ n > 0 => ret.value[1].begin = begin
            /\ \A i \in 1..n :
                  /\ ret.value[i].begin < ret.value[i].end
                  /\ i < n => ret.value[i + 1].begin = ret.value[i].end
                  /\ i < n => ret.value[i].end - ret.value[i].begin = chunk_size
                  /\ ret.value[i].end - ret.value[i].begin <= chunk_size
            /\ ~exact => /\ (n = 0) = (begin = total)
                         /\ n > 0 => ret.value[n].end = total
            /\ exact => /\ n = (total - begin) \div chunk_size
                        /\ \A i \in 1..n : ret.value[i].end - ret.value[i].begin = chunk_size

----------------------------------------------------------------------------
(* sentence_splitter.SentenceSplitter *)

\* C33: for any sequence of SentenceSplitter.push(text) calls followed by
\* pop(), the sentences push returned, in order, followed by the popped
\* remainder are the concatenation of all pushed texts; every sentence push
\* returns ends with a terminal punctuation character; and push returns
\* None exactly when its text contains none.
C33_SentencesPartitionTheText ==
    /\ call.op = "SentenceSplitter.push" =>
          /\ ret.kind = "return"
          /\ (ret.value = <<>>) = (\A i \in 1..Len(call.data) : call.data[i] \notin TERMINAL_PUNCTUATION)
          /\ ret.value # <<>> =>
                /\ ret.value[1] # <<>>
                /\ ret.value[1][Len(ret.value[1])] \in TERMINAL_PUNCTUATION
    /\ call.op = "SentenceSplitter.pop" =>
          /\ ret.kind = "return"
          /\ output \o ret.value[1] = input

----------------------------------------------------------------------------
(* hume_ai.HumeAi.aiter_audio *)

\* C32: HumeAi.aiter_audio never drops audio: every yielded chunk has a
\* length that is a multiple of the PCM sample width, chunks are yielded in
\* receive order, and once the text queue is closed and all response lines
\* are consumed the yielded chunks joined are all the decoded audio bytes
\* received (no tail remains in the byte buffer).
C32_AllAudioIsYielded ==
    call.op = "HumeAi.aiter_audio" =>
        /\ ret.kind = "return"
        /\ \A i \in 1..Len(ret.value) : Len(ret.value[i]) % PCM_S16LE_SAMPLE_WIDTH = 0
        /\ Join(ret.value) = Join(call.data)

----------------------------------------------------------------------------
(* microphone.Microphone._callback *)

\* C31: the audio blocks captured by Microphone._callback on the audio
\* thread are appended to audio_queue in the order in which the callbacks
\* were invoked, for every interleaving of callback invocations with
\* event-loop steps: at any moment audio_queue holds the first blocks
\* captured, each once and in callback order, and the callbacks still
\* pending hold the rest.
C31_BlocksQueuedInCallbackOrder ==
    /\ Len(mic.audio_queue) <= Len(input)
    /\ mic.audio_queue = SubSeq(input, 1, Len(mic.audio_queue))
    /\ Len(mic.audio_queue) + Len(mic.event_loop) = Len(input)
    /\ mic.event_loop = <<>> => mic.audio_queue = input

\* three blocks, the third equal to the first, all appended in the order
\* they were captured
C31_Witness ==
    /\ input = <<2, 1, 2>>
    /\ mic.audio_queue = <<2, 1, 2>>
    /\ mic.event_loop = <<>>
    /\ call = [op |-> "append", data |-> <<2>>, finish |-> FALSE]

====
